---- MODULE Spec2Model ----
(***************************************************************************)
(* Model of the environment lifecycle of mockfactory.io:                   *)
(*   app/api/environments.py            (request handlers)                 *)
(*   app/services/environment_provisioner.py                               *)
(*   app/services/background_tasks.py   (auto-shutdown sweep)              *)
(*   app/models/environment.py, app/models/port_allocation.py              *)
(*                                                                         *)
(* Every request handler and the sweep own a database session.  A step of  *)
(* the model is one database transaction (a query, or the statements up to *)
(* a commit) or one pass over the container engine; handlers of different  *)
(* workers interleave between steps.  A session keeps the attributes of a  *)
(* row it loaded until its next commit or rollback expires them.           *)
(*                                                                         *)
(* Time is counted in whole hours and money in cents, so that              *)
(* round(duration_hours * hourly_rate, 2) is exact; the hour changes       *)
(* between the runs of handlers, not within one.                           *)
(***************************************************************************)
EXTENDS Integers, Sequences, FiniteSets, TLC

\* ---------------------------------------------------------------- bounds
NumPorts == 2       \* size of the modelled port range
MaxClock == 2       \* the clock stops at this hour
MaxRequests == 4    \* requests and sweep passes begun
MaxAttempts == 2    \* attempts of the port allocator before it gives up
MaxCalls == 5       \* requests served by the emulators, the sandbox and DNS
MaxEmuCalls == 3    \* emulator requests served beside the lifecycle requests
MaxExecutions == 2  \* requests to execute code in the sandbox
MaxDnsCalls == 3    \* requests to the DNS records and the DNS server
MaxUsageRuns == 6   \* requests to execute code that the usage limit admits

\* ------------------------------------------------------- program constants
PORT_RANGE_START == 30000
PORT_RANGE_END == PORT_RANGE_START + NumPorts - 1
MAX_RETRIES == MaxAttempts
AUTO_SHUTDOWN_HOURS_MIN == 1

Envs == {"env-a", "env-b"}
Workers == {"w1", "w2"}
Sweeper == "sweep"
Procs == Workers \cup {Sweeper}
NoEnv == "no-env"
Null == 0 - 1

\* EnvironmentStatus
PROVISIONING == "provisioning"
RUNNING == "running"
STOPPED == "stopped"
DESTROYING == "destroying"
DESTROYED == "destroyed"
ERROR == "error"
EnvironmentStatus == {PROVISIONING, RUNNING, STOPPED, DESTROYING, DESTROYED, ERROR}

\* the services of ServiceType a modelled environment may declare
ContainerServices == {"redis", "postgresql"}
QueueServices == {"aws_sqs", "aws_sns"}
StorageServices == {"aws_s3"}

\* the request's service list as the dict create_environment builds from it
ServiceLists ==
    { <<"aws_s3">>, <<"aws_s3", "redis">>, <<"redis", "postgresql">> }

\* SERVICE_PRICING, in cents per hour
SERVICE_PRICING(s) ==
    CASE s = "redis" -> 10
      [] s = "postgresql" -> 10
      [] s = "aws_s3" -> 5
      [] s = "aws_sqs" -> 3
      [] s = "aws_sns" -> 3
      [] OTHER -> 0

RECURSIVE calculate_hourly_rate(_)
calculate_hourly_rate(services) ==
    IF services = <<>> THEN 0
    ELSE SERVICE_PRICING(Head(services)) + calculate_hourly_rate(Tail(services))

Range(s) == { s[i] : i \in 1..Len(s) }

VARIABLES
    environments,       \* table environments: id -> row
    port_allocations,   \* table port_allocations: set of rows
    usage_logs,         \* table environment_usage_logs: sequence of rows
    docker,             \* container engine: <<env, name>> -> state
    buckets,            \* object-storage buckets that exist: <<env, service>>
    now,                \* datetime.utcnow(), in hours
    prov,               \* create_environment/provision handler of each env
    req,                \* stop/start/destroy handlers and the sweep
    sweepSnap,          \* rows the sweep loaded with its query
    nreq,               \* requests and sweep passes begun so far
    mock_vpcs,              \* table mock_vpcs
    mock_subnets,           \* table mock_subnets
    mock_security_groups,   \* table mock_security_groups
    mock_internet_gateways, \* table mock_internet_gateways
    oci_network,            \* network objects of the cloud compartment
    last_delete_vcn,        \* the latest run of OCINetworkService.delete_vcn
    dynamodb_tables,        \* table mock_dynamodb_tables
    dynamodb_items,         \* table mock_dynamodb_items
    sqs_queues,             \* table mock_sqs_queues
    redis_lists,            \* the Redis lists behind the queues
    lambda_functions,       \* table mock_lambda_functions_v2
    lambda_invocations,     \* table mock_lambda_invocations
    credits,                \* credit balance of the environments' owner
    ncalls,                 \* emulator requests served so far
    ddb_req,                \* put_item and delete_item handler of each worker
    ddb_written,            \* history: the writes completed last on each key
    ddb_got,                \* the answer of the latest get_item
    redis_receipts,         \* the Redis keys receipt:<handle> with their value
    sqs_delivered,          \* history: the answers of receive_message
    executions,             \* table executions
    usage_records,          \* table usage_records: the rows
    sandbox_containers,     \* containers of the sandbox in the engine
    sandbox,                \* execute_code handler of each worker
    dns_records,            \* table dns_records
    dns_answer              \* the latest query of the DNS server and its answer

\* the state of the emulators
emuVars ==
    <<mock_vpcs, mock_subnets, mock_security_groups, mock_internet_gateways,
      oci_network, last_delete_vcn, dynamodb_tables, dynamodb_items,
      sqs_queues, redis_lists, lambda_functions, lambda_invocations, credits,
      ncalls, ddb_req, ddb_written, ddb_got, redis_receipts, sqs_delivered,
      executions, usage_records, sandbox_containers, sandbox, dns_records,
      dns_answer>>

ddbVars == <<ddb_req, ddb_written, ddb_got>>

sqsVars == <<redis_receipts, sqs_delivered>>

sandboxVars == <<executions, usage_records, sandbox_containers, sandbox>>

dnsVars == <<dns_records, dns_answer>>

vars == <<environments, port_allocations, usage_logs, docker, buckets, now,
          prov, req, sweepSnap, nreq, emuVars>>

ContainerNames == ContainerServices \cup {"elasticmq"}

NoRow ==
    [exists |-> FALSE, status |-> "none", services |-> <<>>, endpoints |-> {},
     docker_containers |-> <<>>, oci_resources |-> {}, hourly_rate |-> 0,
     total_cost |-> 0, last_activity |-> 0, auto_shutdown_hours |-> 0]

IdleProv ==
    [pc |-> "none", idx |-> 1, allocated |-> {}, cursor |-> PORT_RANGE_START,
     attempt |-> 0, name |-> "none", endpoints |-> {}, docker_containers |-> <<>>,
     oci_resources |-> {}, outcome |-> "none"]

\* names a client may give to a table, a queue or a function
ResourceNames == {"orders"}

\* keys of the items a client writes, of the type the table declares
ItemKeys == {"k1", "k2"}

\* what json.dumps writes for the attributes of an item beside its key
ItemBodies == {<<"x">>, <<"x", "y", "z">>}

\* the Item of a PutItem request
Items == [pk : ItemKeys, body : ItemBodies]

NoItem == [pk |-> "none", body |-> <<>>]

NoDdbRow ==
    [id |-> 0, table_id |-> 0, partition_key_value |-> "none",
     item_data |-> NoItem]

NoTable ==
    [id |-> 0, environment_id |-> NoEnv, table_name |-> "none",
     item_count |-> 0, table_size_bytes |-> 0]

IdleDdb ==
    [pc |-> "idle", request |-> 0, name |-> "none", key |-> "none",
     item |-> NoItem, table |-> NoTable, existing |-> NoDdbRow,
     overlapped |-> {}]

NoAnswer == [request |-> 0, name |-> "none", key |-> "none", item |-> NoItem]

\* X-Session-Id of the anonymous clients of the sandbox
Sessions == {"s1"}

\* settings.RUNS_ANONYMOUS
RUNS_ANONYMOUS == 5

\* ExecutionStatus
EXEC_RUNNING == "running"
EXEC_COMPLETED == "completed"
EXEC_FAILED == "failed"
EXEC_TIMEOUT == "timeout"
EXEC_SECURITY_VIOLATION == "security_violation"

\* the dict DockerSandbox.execute returns
NoResult ==
    [status |-> "none", exit_code |-> Null, security_violations |-> {},
     container_id |-> 0]

IdleSandbox ==
    [pc |-> "idle", session |-> "", record |-> 0, count |-> 0,
     execution |-> 0, waited |-> "none", detected |-> {}, result |-> NoResult]

\* the response of the DNS server to a query that was dropped
NoResponse ==
    [id |-> <<0, 0>>, flags |-> 0, qdcount |-> 0, ancount |-> 0,
     answers |-> <<>>]

NoQuery ==
    [request |-> 0,
     query |-> [id |-> <<0, 0>>, query_name |-> "", query_type |-> 0],
     response |-> NoResponse]

\* the balance of the owner when the first environment is created
StartingCredits == 10

NoDeleteVcn == [request |-> 0, vcn_id |-> 0, calls |-> <<>>, result |-> TRUE]

IdleReq ==
    [pc |-> "idle", kind |-> "none", env |-> NoEnv, docker_containers |-> <<>>,
     oci_resources |-> {}, total_cost |-> 0, queue |-> <<>>, expired |-> FALSE,
     warned |-> {}, fatal |-> 0]

Init ==
    /\ environments = [e \in Envs |-> NoRow]
    /\ port_allocations = {}
    /\ usage_logs = <<>>
    /\ docker = [c \in Envs \X ContainerNames |-> "absent"]
    /\ buckets = {}
    /\ now = 0
    /\ prov = [e \in Envs |-> IdleProv]
    /\ req = [p \in Procs |-> IdleReq]
    /\ sweepSnap = [e \in Envs |-> NoRow]
    /\ nreq = 0
    /\ mock_vpcs = {}
    /\ mock_subnets = {}
    /\ mock_security_groups = {}
    /\ mock_internet_gateways = {}
    /\ oci_network = {}
    /\ last_delete_vcn = NoDeleteVcn
    /\ dynamodb_tables = {}
    /\ dynamodb_items = {}
    /\ sqs_queues = {}
    /\ redis_lists = [k \in Envs \X ResourceNames |-> <<>>]
    /\ lambda_functions = {}
    /\ lambda_invocations = {}
    /\ credits = StartingCredits
    /\ ncalls = 0
    /\ ddb_req = [w \in Workers |-> IdleDdb]
    /\ ddb_written = [k \in ResourceNames \X ItemKeys |-> {NoItem}]
    /\ ddb_got = NoAnswer
    /\ redis_receipts = {}
    /\ sqs_delivered = {}
    /\ executions = {}
    /\ usage_records = {}
    /\ sandbox_containers = {}
    /\ sandbox = [w \in Workers |-> IdleSandbox]
    /\ dns_records = {}
    /\ dns_answer = NoQuery

\* ------------------------------------------------------------ the clock
\* hours are counted from the creation of the first environment; a handler
\* runs for seconds, so the hour changes between the runs of handlers
Tick ==
    /\ now < MaxClock
    /\ \E e \in Envs : environments[e].exists
    /\ \A e \in Envs : prov[e].pc \in {"none", "done"}
    /\ \A p \in Procs : req[p].pc = "idle"
    /\ now' = now + 1
    /\ UNCHANGED emuVars
    /\ UNCHANGED <<environments, port_allocations, usage_logs, docker, buckets,
                   prov, req, sweepSnap, nreq>>

\* ------------------------------------------------- create_environment
\* the container a service runs in: SQS and SNS share one ElasticMQ container
ContainerNameOf(s) == IF s \in QueueServices THEN "elasticmq" ELSE s

\* where the for-loop of provision goes for the service at index idx, given
\* the containers this provision has started so far
ProvisionDispatch(services, idx, started) ==
    IF idx > Len(services) THEN "commit"
    ELSE IF services[idx] \in ContainerServices THEN "alloc_query"
    ELSE IF services[idx] \in QueueServices
         THEN IF "elasticmq" \in Range(started) THEN "shared" ELSE "alloc_query"
    ELSE IF services[idx] \in StorageServices THEN "oci_storage"
    ELSE "skip"

\* provision's for-loop from index p.idx up to its next database or adapter
\* call; a second queue service only copies the ElasticMQ endpoint
RECURSIVE ProvisionLoop(_, _)
ProvisionLoop(services, p) ==
    LET d == ProvisionDispatch(services, p.idx, p.docker_containers) IN
    CASE d = "shared" ->
           ProvisionLoop(services,
               [p EXCEPT !.endpoints = @ \cup {services[p.idx]}, !.idx = @ + 1])
      [] d = "skip" -> ProvisionLoop(services, [p EXCEPT !.idx = @ + 1])
      [] d = "alloc_query" ->
           [p EXCEPT !.pc = d, !.name = ContainerNameOf(services[p.idx]),
                     !.attempt = 0, !.allocated = {},
                     !.cursor = PORT_RANGE_START]
      [] OTHER -> [p EXCEPT !.pc = d, !.name = "none", !.allocated = {},
                            !.cursor = PORT_RANGE_START]

\* generate_environment_id draws a fresh id: the ids are used in this order
EarlierIds(e) == IF e = "env-b" THEN {"env-a"} ELSE {}

CreateEnvironment(e, services, hours) ==
    /\ ~environments[e].exists
    /\ \A f \in EarlierIds(e) : environments[f].exists
    /\ nreq < MaxRequests
    /\ nreq' = nreq + 1
    /\ calculate_hourly_rate(services) # 0
    /\ environments' = [environments EXCEPT ![e] =
          [exists |-> TRUE, status |-> PROVISIONING, services |-> services,
           endpoints |-> {}, docker_containers |-> <<>>, oci_resources |-> {},
           hourly_rate |-> calculate_hourly_rate(services), total_cost |-> 0,
           last_activity |-> now, auto_shutdown_hours |-> hours]]
    /\ prov' = [prov EXCEPT ![e] = ProvisionLoop(services, IdleProv)]
    /\ UNCHANGED emuVars
    /\ UNCHANGED <<port_allocations, usage_logs, docker, buckets, now, req,
                   sweepSnap>>

\* ------------------------------------------------ _get_available_port
ActivePorts == { a.port : a \in { r \in port_allocations : r.is_active } }

NoUniqueIndex(port) == FALSE

\* the unique index on port_allocations.port rejects the insert
UniqueViolation(port) == \E r \in port_allocations : r.port = port

\* candidates of the inner for-loop from the cursor on
Candidates(p) ==
    { q \in PORT_RANGE_START..PORT_RANGE_END :
         q >= p.cursor /\ q \notin p.allocated }

Min(S) == CHOOSE x \in S : \A y \in S : x <= y

\* the query that opens an attempt
AllocQuery(e) ==
    /\ prov[e].pc = "alloc_query"
    /\ prov' = [prov EXCEPT ![e] =
          [@ EXCEPT !.pc = "alloc_try", !.allocated = ActivePorts,
                    !.cursor = PORT_RANGE_START]]
    /\ UNCHANGED emuVars
    /\ UNCHANGED <<environments, port_allocations, usage_logs, docker, buckets,
                   now, req, sweepSnap, nreq>>

\* one pass of the inner for-loop: insert and commit the next candidate, or
\* leave the loop, sleep and start the next attempt
AllocTry(e) ==
    /\ prov[e].pc = "alloc_try"
    /\ LET p == prov[e] IN
       IF Candidates(p) # {}
       THEN LET port == Min(Candidates(p)) IN
            IF UniqueViolation(port)
            THEN /\ prov' = [prov EXCEPT ![e] = [p EXCEPT !.cursor = port + 1]]
                 /\ UNCHANGED port_allocations
            ELSE /\ port_allocations' = port_allocations \cup
                       {[id |-> Cardinality(port_allocations) + 1,
                         port |-> port, environment_id |-> e,
                         service_name |-> p.name, is_active |-> TRUE]}
                 /\ prov' = [prov EXCEPT ![e] =
                       [p EXCEPT !.pc = "run_container", !.cursor = port]]
       ELSE /\ UNCHANGED port_allocations
            /\ prov' = [prov EXCEPT ![e] =
                  IF p.attempt + 1 < MAX_RETRIES
                  THEN [p EXCEPT !.pc = "alloc_query", !.attempt = @ + 1]
                  ELSE [p EXCEPT !.pc = "except", !.attempt = @ + 1]]
    /\ UNCHANGED emuVars
    /\ UNCHANGED <<environments, usage_logs, docker, buckets, now, req,
                   sweepSnap, nreq>>

\* --------------------------------------------------- _provision_container
\* docker_client.containers.run: the container starts, or the engine fails
\* and the RuntimeError leaves provision's for-loop
RunContainer(e, ok) ==
    /\ prov[e].pc = "run_container"
    /\ LET p == prov[e]
           s == environments[e].services IN
       IF ok
       THEN /\ docker' = [docker EXCEPT ![<<e, p.name>>] = "running"]
            /\ prov' = [prov EXCEPT ![e] =
                  ProvisionLoop(s,
                     [p EXCEPT !.docker_containers = Append(@, p.name),
                               !.endpoints = @ \cup {s[p.idx]},
                               !.idx = @ + 1])]
       ELSE /\ UNCHANGED docker
            /\ prov' = [prov EXCEPT ![e] = [p EXCEPT !.pc = "except"]]
    /\ UNCHANGED emuVars
    /\ UNCHANGED <<environments, port_allocations, usage_logs, buckets, now,
                   req, sweepSnap, nreq>>

\* _provision_oci_storage: a failed bucket create is only a warning
ProvisionOciStorage(e, ok) ==
    /\ prov[e].pc = "oci_storage"
    /\ LET p == prov[e]
           s == environments[e].services IN
       /\ buckets' = IF ok THEN buckets \cup {<<e, s[p.idx]>>} ELSE buckets
       /\ prov' = [prov EXCEPT ![e] =
             ProvisionLoop(s,
                [p EXCEPT !.oci_resources = @ \cup {s[p.idx]},
                          !.endpoints = @ \cup {s[p.idx]},
                          !.idx = @ + 1])]
    /\ UNCHANGED emuVars
    /\ UNCHANGED <<environments, port_allocations, usage_logs, docker, now,
                   req, sweepSnap, nreq>>

NewUsageLog(e) ==
    [environment_id |-> e, period_start |-> now, period_end |-> Null,
     hourly_rate |-> environments[e].hourly_rate, cost |-> 0]

ProvisionCommitWithoutHandles(e) ==
    /\ prov[e].pc = "commit"
    /\ environments' = [environments EXCEPT ![e] = [@ EXCEPT !.status = RUNNING]]
    /\ usage_logs' = Append(usage_logs, NewUsageLog(e))
    /\ prov' = [prov EXCEPT ![e] = [@ EXCEPT !.pc = "done", !.outcome = "running"]]
    /\ UNCHANGED emuVars
    /\ UNCHANGED <<port_allocations, docker, buckets, now, req, sweepSnap, nreq>>

\* the end of provision's try block: handles, status and the first usage
\* log are committed together
ProvisionCommit(e) ==
    /\ prov[e].pc = "commit"
    /\ environments' = [environments EXCEPT ![e] =
          [@ EXCEPT !.endpoints = prov[e].endpoints,
                    !.docker_containers = prov[e].docker_containers,
                    !.oci_resources = prov[e].oci_resources,
                    !.status = RUNNING]]
    /\ usage_logs' = Append(usage_logs, NewUsageLog(e))
    /\ prov' = [prov EXCEPT ![e] = [@ EXCEPT !.pc = "done", !.outcome = "running"]]
    /\ UNCHANGED emuVars
    /\ UNCHANGED <<port_allocations, docker, buckets, now, req, sweepSnap, nreq>>

ProvisionExceptKeepsStatus(e) ==
    /\ prov[e].pc = "except"
    /\ prov' = [prov EXCEPT ![e] = [@ EXCEPT !.pc = "create_except", !.outcome = "failed"]]
    /\ UNCHANGED emuVars
    /\ UNCHANGED <<environments, port_allocations, usage_logs, docker, buckets,
                   now, req, sweepSnap, nreq>>

\* provision's except block
ProvisionExcept(e) ==
    /\ prov[e].pc = "except"
    /\ environments' = [environments EXCEPT ![e] = [@ EXCEPT !.status = ERROR]]
    /\ prov' = [prov EXCEPT ![e] = [@ EXCEPT !.pc = "create_except", !.outcome = "failed"]]
    /\ UNCHANGED emuVars
    /\ UNCHANGED <<port_allocations, usage_logs, docker, buckets, now, req,
                   sweepSnap, nreq>>

\* create_environment's except block, reached by the re-raised exception
CreateExcept(e) ==
    /\ prov[e].pc = "create_except"
    /\ environments' = [environments EXCEPT ![e] = [@ EXCEPT !.status = ERROR]]
    /\ prov' = [prov EXCEPT ![e] = [@ EXCEPT !.pc = "done"]]
    /\ UNCHANGED emuVars
    /\ UNCHANGED <<port_allocations, usage_logs, docker, buckets, now, req,
                   sweepSnap, nreq>>

\* ------------------------------------------ sessions of the other handlers
\* the attributes a session has loaded of its environment row
Load(r, row) ==
    [r EXCEPT !.docker_containers = row.docker_containers,
              !.oci_resources = row.oci_resources,
              !.total_cost = row.total_cost]

\* a request is served by the first free worker
CanBegin(w) ==
    /\ req[w].pc = "idle"
    /\ nreq < MaxRequests
    /\ w = "w2" => req["w1"].pc # "idle"

\* a loop that an exception of one environment ends for good
LoopEnds(p) == [IdleReq EXCEPT !.pc = "ended"]

\* the handler or the sweep's loop body is over: a request's session closes,
\* the sweep goes on with the next environment of its query
Finish(p) ==
    IF p = Sweeper /\ Len(req[p].queue) > 1
    THEN [IdleReq EXCEPT !.pc = "sweep_check", !.kind = "sweep",
                         !.queue = Tail(req[p].queue), !.expired = TRUE]
    ELSE IdleReq

\* the rows the sweep's session holds once p has finished: db.close() at the
\* end of a pass drops them
Closed(p) ==
    IF p = Sweeper /\ Finish(p).pc = "idle"
    THEN [e \in Envs |-> NoRow]
    ELSE sweepSnap

\* the engine's state of each container of the list after a loop that asks
\* the engine for `to`; containers in `failed` answer with an APIError, absent
\* ones with NotFound, and the loop is left by another exception at index
\* fatal (0: never)
EngineLoop(e, containers, to, failed, fatal) ==
    [c \in Envs \X ContainerNames |->
        IF /\ c[1] = e
           /\ \E i \in 1..Len(containers) :
                 containers[i] = c[2] /\ (fatal = 0 \/ i < fatal)
           /\ c[2] \notin failed
           /\ docker[c] # "absent"
        THEN to
        ELSE docker[c]]

OpenLogs(e) ==
    { i \in 1..Len(usage_logs) :
         usage_logs[i].environment_id = e /\ usage_logs[i].period_end = Null }

\* cost of a period closed now: round(duration_hours * hourly_rate, 2)
PeriodCost(log) == (now - log.period_start) * log.hourly_rate

CloseLog(i) ==
    [usage_logs EXCEPT ![i] =
        [@ EXCEPT !.period_end = now, !.cost = PeriodCost(usage_logs[i])]]

\* ------------------------------------------------------- stop_environment
StopRemoves == "absent"

\* container.stop leaves the container in the engine, exited
StoppedState == "exited"

BeginStop(w, e) ==
    /\ CanBegin(w)
    /\ nreq' = nreq + 1
    /\ environments[e].exists
    /\ environments[e].status = RUNNING
    /\ req' = [req EXCEPT ![w] =
          Load([IdleReq EXCEPT
                  !.kind = "stop", !.env = e,
                  !.pc = IF environments[e].docker_containers = <<>>
                         THEN "stop_status" ELSE "stop_containers"],
               environments[e])]
    /\ UNCHANGED emuVars
    /\ UNCHANGED <<environments, port_allocations, usage_logs, docker, buckets,
                   now, prov, sweepSnap>>

\* EnvironmentProvisioner.stop, the loop over the containers
StopContainers(p, failed, fatal) ==
    /\ req[p].pc = "stop_containers"
    /\ failed \subseteq Range(req[p].docker_containers)
    /\ fatal \in 0..Len(req[p].docker_containers)
    /\ docker' = EngineLoop(req[p].env, req[p].docker_containers, StoppedState,
                            failed, fatal)
    /\ req' = [req EXCEPT ![p] =
          IF fatal = 0 THEN [@ EXCEPT !.pc = "stop_close_log"] ELSE Finish(p)]
    /\ sweepSnap' = IF fatal = 0 THEN sweepSnap ELSE Closed(p)
    /\ UNCHANGED emuVars
    /\ UNCHANGED <<environments, port_allocations, usage_logs, buckets, now,
                   prov, nreq>>

\* EnvironmentProvisioner.stop, closing the open usage log
StopCloseLog(p) ==
    /\ req[p].pc = "stop_close_log"
    /\ LET e == req[p].env IN
       IF OpenLogs(e) = {}
       THEN /\ UNCHANGED <<usage_logs, environments>>
            /\ req' = [req EXCEPT ![p] = [@ EXCEPT !.pc = "stop_status"]]
       ELSE \E i \in OpenLogs(e) :
            /\ usage_logs' = CloseLog(i)
            /\ environments' = [environments EXCEPT ![e] =
                  [@ EXCEPT !.total_cost =
                       req[p].total_cost + PeriodCost(usage_logs[i])]]
            /\ req' = [req EXCEPT ![p] =
                  [@ EXCEPT !.pc = "stop_status", !.expired = TRUE]]
    /\ UNCHANGED emuVars
    /\ UNCHANGED <<port_allocations, docker, buckets, now, prov, sweepSnap, nreq>>

\* the handler's (or the sweep's) status update after stop returned
StopSetStatus(p) ==
    /\ req[p].pc = "stop_status"
    /\ environments' = [environments EXCEPT ![req[p].env] =
          [@ EXCEPT !.status = STOPPED]]
    /\ req' = [req EXCEPT ![p] = Finish(p)]
    /\ sweepSnap' = Closed(p)
    /\ UNCHANGED emuVars
    /\ UNCHANGED <<port_allocations, usage_logs, docker, buckets, now, prov, nreq>>

\* ------------------------------------------------------ start_environment
BeginStart(w, e) ==
    /\ CanBegin(w)
    /\ nreq' = nreq + 1
    /\ environments[e].exists
    /\ environments[e].status = STOPPED
    /\ req' = [req EXCEPT ![w] =
          Load([IdleReq EXCEPT
                  !.kind = "start", !.env = e,
                  !.pc = IF environments[e].docker_containers = <<>>
                         THEN "start_status" ELSE "start_containers"],
               environments[e])]
    /\ UNCHANGED emuVars
    /\ UNCHANGED <<environments, port_allocations, usage_logs, docker, buckets,
                   now, prov, sweepSnap>>

StartContainers(w, failed, fatal) ==
    /\ req[w].pc = "start_containers"
    /\ failed \subseteq Range(req[w].docker_containers)
    /\ fatal \in 0..Len(req[w].docker_containers)
    /\ docker' = EngineLoop(req[w].env, req[w].docker_containers, "running",
                            failed, fatal)
    /\ req' = [req EXCEPT ![w] =
          IF fatal = 0 THEN [@ EXCEPT !.pc = "start_open_log"] ELSE IdleReq]
    /\ UNCHANGED emuVars
    /\ UNCHANGED <<environments, port_allocations, usage_logs, buckets, now,
                   prov, sweepSnap, nreq>>

StartOpenLog(w) ==
    /\ req[w].pc = "start_open_log"
    /\ usage_logs' = Append(usage_logs, NewUsageLog(req[w].env))
    /\ req' = [req EXCEPT ![w] = [@ EXCEPT !.pc = "start_status"]]
    /\ UNCHANGED emuVars
    /\ UNCHANGED <<environments, port_allocations, docker, buckets, now, prov,
                   sweepSnap, nreq>>

StartSetStatus(w) ==
    /\ req[w].pc = "start_status"
    /\ environments' = [environments EXCEPT ![req[w].env] =
          [@ EXCEPT !.status = RUNNING]]
    /\ req' = [req EXCEPT ![w] = IdleReq]
    /\ UNCHANGED emuVars
    /\ UNCHANGED <<port_allocations, usage_logs, docker, buckets, now, prov,
                   sweepSnap, nreq>>

\* ---------------------------------------------------- destroy_environment
NeverDestroyed(row) == FALSE

\* the handler's check for an environment that is already destroyed
AlreadyDestroyed(row) == row.status = DESTROYED

\* the handler up to its first commit: 400 for a destroyed environment,
\* else the status becomes destroying
BeginDestroy(w, e) ==
    /\ CanBegin(w)
    /\ nreq' = nreq + 1
    /\ environments[e].exists
    /\ IF AlreadyDestroyed(environments[e])
       THEN /\ UNCHANGED environments
            /\ req' = [req EXCEPT ![w] =
                  [IdleReq EXCEPT !.kind = "destroy", !.env = e, !.pc = "rejected"]]
       ELSE /\ environments' = [environments EXCEPT ![e] =
                  [@ EXCEPT !.status = DESTROYING]]
            /\ req' = [req EXCEPT ![w] =
                  [IdleReq EXCEPT !.kind = "destroy", !.env = e,
                                  !.pc = "destroy_ports"]]
    /\ UNCHANGED emuVars
    /\ UNCHANGED <<port_allocations, usage_logs, docker, buckets, now, prov,
                   sweepSnap>>

\* the HTTPException "Environment already destroyed" ends the request
DestroyReject(w) ==
    /\ req[w].pc = "rejected"
    /\ req' = [req EXCEPT ![w] = IdleReq]
    /\ UNCHANGED emuVars
    /\ UNCHANGED <<environments, port_allocations, usage_logs, docker, buckets,
                   now, prov, sweepSnap, nreq>>

\* PortAllocation.release on every active allocation of the environment
ReleasePorts(e) ==
    { IF r.environment_id = e THEN [r EXCEPT !.is_active = FALSE] ELSE r :
         r \in port_allocations }

DestroyReleasePorts(w) ==
    /\ req[w].pc = "destroy_ports"
    /\ port_allocations' = ReleasePorts(req[w].env)
    /\ req' = [req EXCEPT ![w] = [@ EXCEPT !.pc = "destroy_resources"]]
    /\ UNCHANGED emuVars
    /\ UNCHANGED <<environments, usage_logs, docker, buckets, now, prov,
                   sweepSnap, nreq>>

\* the containers for which a loop over the engine printed a warning:
\* NotFound for an absent one, APIError for one in `failed`
Warned(e, containers, failed, fatal) ==
    { c \in ContainerNames :
         /\ \E i \in 1..Len(containers) :
               containers[i] = c /\ (fatal = 0 \/ i < fatal)
         /\ c \in failed \/ docker[<<e, c>>] = "absent" }

AbortOnWarning(warned, fatal) ==
    IF fatal = 0 /\ warned = {} THEN "destroy_close_log" ELSE "destroy_except"

\* where destroy goes after its loops: only an exception that is neither
\* NotFound nor APIError leaves it
AfterDestroyLoops(warned, fatal) ==
    IF fatal = 0 THEN "destroy_close_log" ELSE "destroy_except"

\* EnvironmentProvisioner.destroy, the loops over the row's containers and
\* buckets; a bucket in `kept` survives its delete command
DestroyResources(w, failed, fatal, kept) ==
    /\ req[w].pc = "destroy_resources"
    /\ LET e == req[w].env
           row == environments[e] IN
       /\ failed \subseteq Range(row.docker_containers)
       /\ fatal \in 0..Len(row.docker_containers)
       /\ kept \subseteq row.oci_resources
       /\ docker' = EngineLoop(e, row.docker_containers, "absent", failed,
                               fatal)
       /\ buckets' = IF fatal = 0
                     THEN buckets \ { <<e, s>> : s \in row.oci_resources \ kept }
                     ELSE buckets
       /\ LET warned == Warned(e, row.docker_containers, failed, fatal) IN
          req' = [req EXCEPT ![w] =
             Load([@ EXCEPT !.pc = AfterDestroyLoops(warned, fatal),
                            !.warned = warned, !.fatal = fatal], row)]
    /\ UNCHANGED emuVars
    /\ UNCHANGED <<environments, port_allocations, usage_logs, now, prov,
                   sweepSnap, nreq>>

DestroyCloseLog(w) ==
    /\ req[w].pc = "destroy_close_log"
    /\ LET e == req[w].env IN
       IF OpenLogs(e) = {}
       THEN UNCHANGED <<usage_logs, environments>>
       ELSE \E i \in OpenLogs(e) :
            /\ usage_logs' = CloseLog(i)
            /\ environments' = [environments EXCEPT ![e] =
                  [@ EXCEPT !.total_cost =
                       req[w].total_cost + PeriodCost(usage_logs[i])]]
    /\ req' = [req EXCEPT ![w] = [@ EXCEPT !.pc = "destroy_status"]]
    /\ UNCHANGED emuVars
    /\ UNCHANGED <<port_allocations, docker, buckets, now, prov, sweepSnap, nreq>>

DestroySetStatus(w) ==
    /\ req[w].pc = "destroy_status"
    /\ environments' = [environments EXCEPT ![req[w].env] =
          [@ EXCEPT !.status = DESTROYED]]
    /\ req' = [req EXCEPT ![w] = IdleReq]
    /\ UNCHANGED emuVars
    /\ UNCHANGED <<port_allocations, usage_logs, docker, buckets, now, prov,
                   sweepSnap, nreq>>

\* destroy_environment's except block
DestroyExcept(w) ==
    /\ req[w].pc = "destroy_except"
    /\ environments' = [environments EXCEPT ![req[w].env] =
          [@ EXCEPT !.status = ERROR]]
    /\ req' = [req EXCEPT ![w] = IdleReq]
    /\ UNCHANGED emuVars
    /\ UNCHANGED <<port_allocations, usage_logs, docker, buckets, now, prov,
                   sweepSnap, nreq>>

\* ----------------------------------------------------- auto_shutdown_task
RunningEnvs == { e \in Envs : environments[e].exists /\ environments[e].status = RUNNING }

\* the orders in which a query without ORDER BY may return the rows
Orders(S) ==
    { q \in [1..Cardinality(S) -> S] : \A i, j \in 1..Cardinality(S) : q[i] = q[j] => i = j }

\* one pass of the loop begins: the query for the running environments
SweepBegin(order) ==
    /\ req[Sweeper].pc = "idle"
    /\ RunningEnvs # {}
    /\ order \in Orders(RunningEnvs)
    /\ sweepSnap' = [e \in Envs |->
          IF e \in RunningEnvs THEN environments[e] ELSE NoRow]
    /\ req' = [req EXCEPT ![Sweeper] =
          [IdleReq EXCEPT !.pc = "sweep_check", !.kind = "sweep", !.queue = order]]
    /\ UNCHANGED emuVars
    /\ UNCHANGED <<environments, port_allocations, usage_logs, docker, buckets,
                   now, prov>>

\* a pass of the sweep, counted among the requests the model serves
SweepQuery(order) ==
    /\ nreq < MaxRequests
    /\ nreq' = nreq + 1
    /\ SweepBegin(order)

\* the loop body up to the call of stop: the row is the one the query loaded
\* unless a commit or rollback of this pass has expired it
SweepCheck ==
    /\ req[Sweeper].pc = "sweep_check"
    /\ LET r == req[Sweeper]
           e == Head(r.queue)
           row == IF r.expired THEN environments[e] ELSE sweepSnap[e] IN
       req' = [req EXCEPT ![Sweeper] =
          IF /\ row.auto_shutdown_hours > 0
             /\ now - row.last_activity > row.auto_shutdown_hours
          THEN Load([r EXCEPT !.env = e,
                              !.pc = IF row.docker_containers = <<>>
                                     THEN "stop_status" ELSE "stop_containers"],
                    row)
          ELSE IF Len(r.queue) > 1
               THEN [r EXCEPT !.queue = Tail(@)]
               ELSE IdleReq]
    /\ sweepSnap' = IF req'[Sweeper].pc = "idle"
                    THEN [e \in Envs |-> NoRow] ELSE sweepSnap
    /\ UNCHANGED emuVars
    /\ UNCHANGED <<environments, port_allocations, usage_logs, docker, buckets,
                   now, prov, nreq>>

\* ------------------------------------------------- the protocol adapters
\* a host name is the sequence of its characters; a label without a dot or
\* a dash counts as one character
EnvPrefix == <<"e", "n", "v", "-">>

EnvToken(e) == IF e = "env-a" THEN <<"a">> ELSE <<"b">>

\* the id of environment e: "env-" and the random token
generate_environment_id(e) == EnvPrefix \o EnvToken(e)

PlatformHost == <<".", "mockfactory", ".", "io">>

\* pat in s
Contains(s, pat) ==
    \E i \in 1..(Len(s) - Len(pat) + 1) : SubSeq(s, i, i + Len(pat) - 1) = pat

\* host.split(".")[0]
FirstLabel(host) ==
    IF \E i \in 1..Len(host) : host[i] = "."
    THEN SubSeq(host, 1, Min({ i \in 1..Len(host) : host[i] = "." }) - 1)
    ELSE host

\* s.replace(pat, ""): the occurrences are removed from left to right
RECURSIVE Replace(_, _)
Replace(s, pat) ==
    IF Len(s) < Len(pat) THEN s
    ELSE IF SubSeq(s, 1, Len(pat)) = pat
         THEN Replace(SubSeq(s, Len(pat) + 1, Len(s)), pat)
         ELSE <<Head(s)>> \o Replace(Tail(s), pat)

\* the requests of the clients: the subdomain of an environment, a host
\* from which the removal of "env-" leaves an environment id, and the
\* platform host with the X-Mock-Environment-ID header
EmuRequests ==
    UNION { { [host |-> generate_environment_id(e) \o PlatformHost,
               header |-> <<>>],
              [host |-> <<"e">> \o EnvPrefix \o <<"n", "v", "-">>
                           \o EnvToken(e) \o PlatformHost,
               header |-> <<>>],
              [host |-> <<"api">> \o PlatformHost,
               header |-> generate_environment_id(e)] } : e \in Envs }

\* db.query(Environment).filter(Environment.id == env_id).first()
EnvironmentWithId(id) ==
    IF \E e \in Envs : environments[e].exists /\ generate_environment_id(e) = id
    THEN CHOOSE e \in Envs :
            environments[e].exists /\ generate_environment_id(e) = id
    ELSE NoEnv

\* aws_vpc_emulator: the environment of a request, NoEnv for 400 and 404
get_environment_from_request(rq) ==
    LET env_id == IF Contains(rq.host, EnvPrefix)
                  THEN FirstLabel(rq.host) ELSE rq.header
        e == EnvironmentWithId(env_id) IN
    IF env_id # <<>> /\ e # NoEnv /\ environments[e].status = RUNNING
    THEN e ELSE NoEnv

\* dynamodb_api, sqs_api and lambda_api: the environment of a request, NoEnv
\* for 400 and 404
SubdomainEnvironment(rq) ==
    IF Contains(rq.host, EnvPrefix)
    THEN EnvironmentWithId(Replace(FirstLabel(rq.host), EnvPrefix))
    ELSE NoEnv

\* the uuid a handler draws for the row or object it creates
FreshId == ncalls + 1

Served ==
    /\ ncalls < MaxCalls
    /\ ncalls' = ncalls + 1

lifeVars ==
    <<environments, port_allocations, usage_logs, docker, buckets, now, prov,
      req, sweepSnap, nreq>>

\* ----------------------------------------------------- aws_vpc_emulator
VcnExists(vcn_id) == \E o \in oci_network : o.kind = "vcn" /\ o.id = vcn_id

\* create_vpc: the cloud network is created, then the row is stored; a
\* failure of the cloud adapter is answered with 500
CreateVpc(rq, ok) ==
    /\ Served
    /\ LET e == get_environment_from_request(rq) IN
       /\ e # NoEnv
       /\ IF ok
          THEN /\ oci_network' = oci_network \cup
                     {[kind |-> "vcn", id |-> FreshId, vcn_id |-> FreshId]}
               /\ mock_vpcs' = mock_vpcs \cup
                     {[id |-> FreshId, environment_id |-> e,
                       oci_vcn_id |-> FreshId, created_at |-> now]}
          ELSE UNCHANGED <<oci_network, mock_vpcs>>
    /\ UNCHANGED <<mock_subnets, mock_security_groups, mock_internet_gateways,
                   last_delete_vcn, dynamodb_tables, dynamodb_items, sqs_queues,
                   redis_lists, lambda_functions, lambda_invocations, credits>>
    /\ UNCHANGED lifeVars
    /\ UNCHANGED <<ddbVars, sqsVars, sandboxVars, dnsVars>>

\* the row of the VPC a request names, in the environment of the request
VpcOf(e, vpc_id) ==
    { v \in mock_vpcs : v.environment_id = e /\ v.id = vpc_id }

VpcIds == 1..MaxCalls

\* create_subnet
CreateSubnet(rq, vpc_id, ok) ==
    /\ Served
    /\ LET e == get_environment_from_request(rq) IN
       /\ e # NoEnv
       /\ \E vpc \in VpcOf(e, vpc_id) :
             /\ ok => VcnExists(vpc.oci_vcn_id)
             /\ IF ok
                THEN /\ oci_network' = oci_network \cup
                           {[kind |-> "subnet", id |-> FreshId,
                             vcn_id |-> vpc.oci_vcn_id]}
                     /\ mock_subnets' = mock_subnets \cup
                           {[id |-> FreshId, vpc_id |-> vpc_id,
                             environment_id |-> e, oci_subnet_id |-> FreshId]}
                ELSE UNCHANGED <<oci_network, mock_subnets>>
    /\ UNCHANGED <<mock_vpcs, mock_security_groups, mock_internet_gateways,
                   last_delete_vcn, dynamodb_tables, dynamodb_items, sqs_queues,
                   redis_lists, lambda_functions, lambda_invocations, credits>>
    /\ UNCHANGED lifeVars
    /\ UNCHANGED <<ddbVars, sqsVars, sandboxVars, dnsVars>>

\* create_security_group
CreateSecurityGroup(rq, vpc_id, ok) ==
    /\ Served
    /\ LET e == get_environment_from_request(rq) IN
       /\ e # NoEnv
       /\ \E vpc \in VpcOf(e, vpc_id) :
             /\ ok => VcnExists(vpc.oci_vcn_id)
             /\ IF ok
                THEN /\ oci_network' = oci_network \cup
                           {[kind |-> "nsg", id |-> FreshId,
                             vcn_id |-> vpc.oci_vcn_id]}
                     /\ mock_security_groups' = mock_security_groups \cup
                           {[id |-> FreshId, vpc_id |-> vpc_id,
                             environment_id |-> e, oci_nsg_id |-> FreshId]}
                ELSE UNCHANGED <<oci_network, mock_security_groups>>
    /\ UNCHANGED <<mock_vpcs, mock_subnets, mock_internet_gateways,
                   last_delete_vcn, dynamodb_tables, dynamodb_items, sqs_queues,
                   redis_lists, lambda_functions, lambda_invocations, credits>>
    /\ UNCHANGED lifeVars
    /\ UNCHANGED <<ddbVars, sqsVars, sandboxVars, dnsVars>>

\* create_internet_gateway: only the row
CreateInternetGateway(rq) ==
    /\ Served
    /\ LET e == get_environment_from_request(rq) IN
       /\ e # NoEnv
       /\ mock_internet_gateways' = mock_internet_gateways \cup
             {[id |-> FreshId, environment_id |-> e, vpc_id |-> 0,
               oci_internet_gateway_id |-> 0]}
    /\ UNCHANGED <<mock_vpcs, mock_subnets, mock_security_groups, oci_network,
                   last_delete_vcn, dynamodb_tables, dynamodb_items, sqs_queues,
                   redis_lists, lambda_functions, lambda_invocations, credits>>
    /\ UNCHANGED lifeVars
    /\ UNCHANGED <<ddbVars, sqsVars, sandboxVars, dnsVars>>

\* attach_internet_gateway: the cloud gateway is created in the network of
\* the VPC and the row of the gateway is updated
AttachInternetGateway(rq, igw_id, vpc_id, ok) ==
    /\ Served
    /\ LET e == get_environment_from_request(rq) IN
       /\ e # NoEnv
       /\ \E vpc \in VpcOf(e, vpc_id) :
          \E igw \in { g \in mock_internet_gateways :
                          g.environment_id = e /\ g.id = igw_id } :
             /\ ok => VcnExists(vpc.oci_vcn_id)
             /\ IF ok
                THEN /\ oci_network' = oci_network \cup
                           {[kind |-> "igw", id |-> FreshId,
                             vcn_id |-> vpc.oci_vcn_id]}
                     /\ mock_internet_gateways' =
                           (mock_internet_gateways \ {igw}) \cup
                           {[igw EXCEPT !.vpc_id = vpc_id,
                                        !.oci_internet_gateway_id = FreshId]}
                ELSE UNCHANGED <<oci_network, mock_internet_gateways>>
    /\ UNCHANGED <<mock_vpcs, mock_subnets, mock_security_groups,
                   last_delete_vcn, dynamodb_tables, dynamodb_items, sqs_queues,
                   redis_lists, lambda_functions, lambda_invocations, credits>>
    /\ UNCHANGED lifeVars
    /\ UNCHANGED <<ddbVars, sqsVars, sandboxVars, dnsVars>>

\* ------------------------------------------ OCINetworkService.delete_vcn
Dependents(vcn_id, kind) ==
    { o \in oci_network : o.kind = kind /\ o.vcn_id = vcn_id }

\* the result of a list call, in the order the cloud returns it
Listed(S) == CHOOSE q \in Orders(S) : TRUE

\* the objects delete_vcn asks the cloud to delete, in the order of its code
DeleteVcnTargets(vcn_id) ==
    Listed(Dependents(vcn_id, "subnet")) \o Listed(Dependents(vcn_id, "igw"))
    \o Listed(Dependents(vcn_id, "nsg"))
    \o <<[kind |-> "vcn", id |-> vcn_id, vcn_id |-> vcn_id]>>

CallsIssuedDespiteFailure(targets, failAt) == targets

\* the calls made when call number failAt raises (0: none does): the
\* exception leaves the try block
CallsIssued(targets, failAt) ==
    SubSeq(targets, 1, IF failAt = 0 THEN Len(targets) ELSE failAt)

delete_vcn(vcn_id, failAt) ==
    LET issued == CallsIssued(DeleteVcnTargets(vcn_id), failAt) IN
    [network |-> oci_network \
                   { issued[i] : i \in { j \in 1..Len(issued) : j # failAt } },
     calls |-> [i \in 1..Len(issued) |->
                  [kind |-> issued[i].kind, id |-> issued[i].id,
                   ok |-> i # failAt]],
     result |-> failAt = 0]

\* delete_vpc: delete_vcn, whose result is not looked at, then the delete of
\* the row, which cascades to the rows of its subnets and security groups
\* and fails on the foreign key of an attached gateway
DeleteVpc(rq, vpc_id, failAt) ==
    /\ Served
    /\ LET e == get_environment_from_request(rq) IN
       /\ e # NoEnv
       /\ \E vpc \in VpcOf(e, vpc_id) :
             LET d == delete_vcn(vpc.oci_vcn_id, failAt) IN
             /\ failAt \in 0..Len(DeleteVcnTargets(vpc.oci_vcn_id))
             /\ ~VcnExists(vpc.oci_vcn_id) => failAt # 0
             /\ oci_network' = d.network
             /\ last_delete_vcn' =
                   [request |-> FreshId, vcn_id |-> vpc.oci_vcn_id,
                    calls |-> d.calls, result |-> d.result]
             /\ IF \E g \in mock_internet_gateways : g.vpc_id = vpc.id
                THEN UNCHANGED <<mock_vpcs, mock_subnets, mock_security_groups>>
                ELSE /\ mock_vpcs' = mock_vpcs \ {vpc}
                     /\ mock_subnets' =
                           { r \in mock_subnets : r.vpc_id # vpc.id }
                     /\ mock_security_groups' =
                           { r \in mock_security_groups : r.vpc_id # vpc.id }
    /\ UNCHANGED <<mock_internet_gateways, dynamodb_tables, dynamodb_items,
                   sqs_queues, redis_lists, lambda_functions,
                   lambda_invocations, credits>>
    /\ UNCHANGED lifeVars
    /\ UNCHANGED <<ddbVars, sqsVars, sandboxVars, dnsVars>>

\* ------------------------------------------------ aws_dynamodb_emulator
\* create_table: a row; table_name is unique over all environments
CreateTable(rq, name) ==
    /\ Served
    /\ LET e == SubdomainEnvironment(rq) IN
       /\ e # NoEnv
       /\ ~\E t \in dynamodb_tables : t.environment_id = e /\ t.table_name = name
       /\ dynamodb_tables' =
             IF \E t \in dynamodb_tables : t.table_name = name
             THEN dynamodb_tables
             ELSE dynamodb_tables \cup
                     {[id |-> FreshId, environment_id |-> e, table_name |-> name,
                       item_count |-> 0, table_size_bytes |-> 0]}
    /\ UNCHANGED <<mock_vpcs, mock_subnets, mock_security_groups,
                   mock_internet_gateways, oci_network, last_delete_vcn,
                   dynamodb_items, sqs_queues, redis_lists, lambda_functions,
                   lambda_invocations, credits>>
    /\ UNCHANGED lifeVars
    /\ UNCHANGED <<ddbVars, sqsVars, sandboxVars, dnsVars>>

\* extract_key_value of the partition key of an item
extract_key_value(item) == item.pk

\* len(json.dumps(item)): the braces, the key and the other attributes
JsonLength(item) == 2 + 1 + Len(item.body)

\* the rows a query for the key of a table matches; first() takes any of
\* them, the query has no ORDER BY
ItemRows(table_id, key) ==
    { i \in dynamodb_items :
         i.table_id = table_id /\ i.partition_key_value = key }

First(rows) == IF rows = {} THEN {NoDdbRow} ELSE rows

TablesNamed(e, name) ==
    { t \in dynamodb_tables : t.environment_id = e /\ t.table_name = name }

ddbRest ==
    <<mock_vpcs, mock_subnets, mock_security_groups, mock_internet_gateways,
      oci_network, last_delete_vcn, sqs_queues, redis_lists, lambda_functions,
      lambda_invocations, credits>>

\* history: the handler of w completed a write of item (NoItem: a delete)
\* on the key; a write that completed while another handler was at work on
\* the same key may be ordered before or after the write of that handler
Completed(w, name, key, item, overlapped) ==
    /\ ddb_written' = [ddb_written EXCEPT ![<<name, key>>] =
                          {item} \cup overlapped]
    /\ ddb_req' = [v \in Workers |->
                     IF v = w THEN IdleDdb
                     ELSE IF ddb_req[v].pc # "idle" /\ ddb_req[v].name = name
                             /\ ddb_req[v].key = key
                          THEN [ddb_req[v] EXCEPT !.overlapped = @ \cup {item}]
                          ELSE ddb_req[v]]

\* put_item, its queries: the table and the item of the key are loaded
PutItemQuery(w, rq, name, item) ==
    /\ Served
    /\ ddb_req[w].pc = "idle"
    /\ LET e == SubdomainEnvironment(rq) IN
       /\ e # NoEnv
       /\ \E t \in TablesNamed(e, name) :
          \E x \in First(ItemRows(t.id, extract_key_value(item))) :
             ddb_req' = [ddb_req EXCEPT ![w] =
                [pc |-> "put_commit", request |-> FreshId, name |-> name,
                 key |-> extract_key_value(item), item |-> item, table |-> t,
                 existing |-> x, overlapped |-> {}]]
    /\ UNCHANGED <<dynamodb_tables, dynamodb_items, ddb_written, ddb_got>>
    /\ UNCHANGED ddbRest
    /\ UNCHANGED lifeVars
    /\ UNCHANGED <<sqsVars, sandboxVars, dnsVars>>

\* update_item hands the request to put_item
UpdateItem(w, rq, name, item) == PutItemQuery(w, rq, name, item)

\* put_item, its commit: the loaded item is rewritten, or a new item is
\* inserted and the statistics of the table are written from the loaded
\* values; the update of an item deleted meanwhile raises StaleDataError
PutItemCommit(w) ==
    /\ ddb_req[w].pc = "put_commit"
    /\ LET r == ddb_req[w] IN
       IF r.existing # NoDdbRow
       THEN IF \E i \in dynamodb_items : i.id = r.existing.id
            THEN /\ dynamodb_items' =
                       { IF i.id = r.existing.id
                         THEN [i EXCEPT !.item_data = r.item] ELSE i :
                         i \in dynamodb_items }
                 /\ Completed(w, r.name, r.key, r.item, r.overlapped)
                 /\ UNCHANGED dynamodb_tables
            ELSE /\ ddb_req' = [ddb_req EXCEPT ![w] = IdleDdb]
                 /\ UNCHANGED <<dynamodb_items, dynamodb_tables, ddb_written>>
       ELSE /\ dynamodb_items' = dynamodb_items \cup
                  {[id |-> r.request, table_id |-> r.table.id,
                    partition_key_value |-> r.key, item_data |-> r.item]}
            /\ dynamodb_tables' =
                  { IF t.id = r.table.id
                    THEN [t EXCEPT
                            !.item_count = r.table.item_count + 1,
                            !.table_size_bytes =
                               r.table.table_size_bytes + JsonLength(r.item)]
                    ELSE t : t \in dynamodb_tables }
            /\ Completed(w, r.name, r.key, r.item, r.overlapped)
    /\ UNCHANGED <<ddb_got, ncalls>>
    /\ UNCHANGED ddbRest
    /\ UNCHANGED lifeVars
    /\ UNCHANGED <<sqsVars, sandboxVars, dnsVars>>

\* get_item: the item of the key, or an empty answer
GetItem(rq, name, key) ==
    /\ Served
    /\ LET e == SubdomainEnvironment(rq) IN
       /\ e # NoEnv
       /\ \E t \in TablesNamed(e, name) :
          \E x \in First(ItemRows(t.id, key)) :
             ddb_got' = [request |-> FreshId, name |-> name, key |-> key,
                         item |-> x.item_data]
    /\ UNCHANGED <<dynamodb_tables, dynamodb_items, ddb_req, ddb_written>>
    /\ UNCHANGED ddbRest
    /\ UNCHANGED lifeVars
    /\ UNCHANGED <<sqsVars, sandboxVars, dnsVars>>

\* delete_item, its queries; without an item of the key the answer is sent
DeleteItemQuery(w, rq, name, key) ==
    /\ Served
    /\ ddb_req[w].pc = "idle"
    /\ LET e == SubdomainEnvironment(rq) IN
       /\ e # NoEnv
       /\ \E t \in TablesNamed(e, name) :
          \E x \in First(ItemRows(t.id, key)) :
             IF x = NoDdbRow
             THEN Completed(w, name, key, NoItem, {})
             ELSE /\ ddb_req' = [ddb_req EXCEPT ![w] =
                        [pc |-> "delete_commit", request |-> FreshId,
                         name |-> name, key |-> key, item |-> NoItem,
                         table |-> t, existing |-> x, overlapped |-> {}]]
                  /\ UNCHANGED ddb_written
    /\ UNCHANGED <<dynamodb_tables, dynamodb_items, ddb_got>>
    /\ UNCHANGED ddbRest
    /\ UNCHANGED lifeVars
    /\ UNCHANGED <<sqsVars, sandboxVars, dnsVars>>

\* delete_item, its commit: the statistics of the table are written from
\* the loaded values and the loaded item is deleted; a delete that matches
\* no row is a warning
DeleteItemCommit(w) ==
    /\ ddb_req[w].pc = "delete_commit"
    /\ LET r == ddb_req[w] IN
       /\ dynamodb_items' = { i \in dynamodb_items : i.id # r.existing.id }
       /\ dynamodb_tables' =
             { IF t.id = r.table.id
               THEN [t EXCEPT
                       !.item_count = r.table.item_count - 1,
                       !.table_size_bytes =
                          r.table.table_size_bytes
                          - JsonLength(r.existing.item_data)]
               ELSE t : t \in dynamodb_tables }
       /\ Completed(w, r.name, r.key, NoItem, r.overlapped)
    /\ UNCHANGED <<ddb_got, ncalls>>
    /\ UNCHANGED ddbRest
    /\ UNCHANGED lifeVars
    /\ UNCHANGED <<sqsVars, sandboxVars, dnsVars>>

\* ----------------------------------------------------- aws_sqs_emulator
\* create_queue: a row; queue_name is unique over all environments
CreateQueue(rq, name) ==
    /\ Served
    /\ LET e == SubdomainEnvironment(rq) IN
       /\ e # NoEnv
       /\ ~\E q \in sqs_queues : q.environment_id = e /\ q.queue_name = name
       /\ sqs_queues' =
             IF \E q \in sqs_queues : q.queue_name = name
             THEN sqs_queues
             ELSE sqs_queues \cup
                     {[id |-> FreshId, environment_id |-> e, queue_name |-> name,
                       approximate_number_of_messages |-> 0,
                       approximate_number_of_messages_not_visible |-> 0]}
    /\ UNCHANGED <<mock_vpcs, mock_subnets, mock_security_groups,
                   mock_internet_gateways, oci_network, last_delete_vcn,
                   dynamodb_tables, dynamodb_items, redis_lists,
                   lambda_functions, lambda_invocations, credits>>
    /\ UNCHANGED lifeVars
    /\ UNCHANGED <<ddbVars, sqsVars, sandboxVars, dnsVars>>

\* send_message: the message is pushed to the Redis list of the queue and
\* counted; an exception of the Redis client is answered with 500
SendMessage(rq, name, ok) ==
    /\ Served
    /\ LET e == SubdomainEnvironment(rq) IN
       /\ e # NoEnv
       /\ \E q \in { u \in sqs_queues :
                        u.environment_id = e /\ u.queue_name = name } :
             IF ok
             THEN /\ redis_lists' = [redis_lists EXCEPT ![<<e, name>>] =
                        Append(@, FreshId)]
                  /\ sqs_queues' = (sqs_queues \ {q}) \cup
                        {[q EXCEPT !.approximate_number_of_messages = @ + 1]}
             ELSE UNCHANGED <<redis_lists, sqs_queues>>
    /\ UNCHANGED <<mock_vpcs, mock_subnets, mock_security_groups,
                   mock_internet_gateways, oci_network, last_delete_vcn,
                   dynamodb_tables, dynamodb_items, lambda_functions,
                   lambda_invocations, credits>>
    /\ UNCHANGED lifeVars
    /\ UNCHANGED <<ddbVars, sqsVars, sandboxVars, dnsVars>>

QueuesNamed(e, name) ==
    { q \in sqs_queues : q.environment_id = e /\ q.queue_name = name }

sqsRest ==
    <<mock_vpcs, mock_subnets, mock_security_groups, mock_internet_gateways,
      oci_network, last_delete_vcn, dynamodb_tables, dynamodb_items,
      lambda_functions, lambda_invocations, credits>>

Peeked(list) == list

\* lpop: the list without its first message
Popped(list) == Tail(list)

NoMessage == 0

\* the handles receive_message may have issued
ReceiptHandles == 1..MaxCalls

\* receive_message with MaxNumberOfMessages 1: the first message is popped
\* from the Redis list, stored under receipt:<handle> for the visibility
\* timeout and returned, and an empty list gives an empty answer; an
\* exception of the Redis client in lpop or in setex is answered with 500
\* before the commit
ReceiveMessage(rq, name, redis) ==
    /\ Served
    /\ LET e == SubdomainEnvironment(rq) IN
       /\ e # NoEnv
       /\ \E q \in QueuesNamed(e, name) :
             LET list == redis_lists[<<e, name>>] IN
             IF redis = "lpop_fails"
             THEN UNCHANGED <<redis_lists, redis_receipts, sqs_delivered,
                              sqs_queues>>
             ELSE IF list = <<>>
             THEN /\ sqs_delivered' = sqs_delivered \cup
                        {[handle |-> FreshId, environment_id |-> e,
                          queue_name |-> name, message |-> NoMessage,
                          elapsed |-> FALSE, deleted |-> FALSE]}
                  /\ UNCHANGED <<redis_lists, redis_receipts, sqs_queues>>
             ELSE /\ redis_lists' =
                        [redis_lists EXCEPT ![<<e, name>>] = Popped(list)]
                  /\ IF redis = "setex_fails"
                     THEN UNCHANGED <<redis_receipts, sqs_delivered, sqs_queues>>
                     ELSE /\ redis_receipts' = redis_receipts \cup
                                {[handle |-> FreshId, message |-> Head(list)]}
                          /\ sqs_delivered' = sqs_delivered \cup
                                {[handle |-> FreshId, environment_id |-> e,
                                  queue_name |-> name, message |-> Head(list),
                                  elapsed |-> FALSE, deleted |-> FALSE]}
                          /\ sqs_queues' = (sqs_queues \ {q}) \cup
                                {[q EXCEPT
                                    !.approximate_number_of_messages = @ - 1,
                                    !.approximate_number_of_messages_not_visible
                                       = @ + 1]}
    /\ UNCHANGED sqsRest
    /\ UNCHANGED lifeVars
    /\ UNCHANGED <<ddbVars, sandboxVars, dnsVars>>

\* Redis drops the key receipt:<handle> when the visibility timeout of the
\* queue has elapsed since the receive
VisibilityTimeoutElapses(handle) ==
    /\ \E k \in redis_receipts : k.handle = handle
    /\ redis_receipts' = { k \in redis_receipts : k.handle # handle }
    /\ sqs_delivered' =
          { IF d.handle = handle THEN [d EXCEPT !.elapsed = TRUE] ELSE d :
            d \in sqs_delivered }
    /\ UNCHANGED <<sqs_queues, redis_lists, ncalls>>
    /\ UNCHANGED sqsRest
    /\ UNCHANGED lifeVars
    /\ UNCHANGED <<ddbVars, sandboxVars, dnsVars>>

\* delete_message: the key receipt:<handle> is deleted and the counter of
\* the messages in flight is decremented, whatever the handle
DeleteMessage(rq, name, handle) ==
    /\ Served
    /\ LET e == SubdomainEnvironment(rq) IN
       /\ e # NoEnv
       /\ \E q \in QueuesNamed(e, name) :
             /\ redis_receipts' = { k \in redis_receipts : k.handle # handle }
             /\ sqs_delivered' =
                   { IF d.handle = handle /\ d.message # NoMessage
                     THEN [d EXCEPT !.deleted = TRUE]
                     ELSE d : d \in sqs_delivered }
             /\ sqs_queues' = (sqs_queues \ {q}) \cup
                   {[q EXCEPT
                       !.approximate_number_of_messages_not_visible = @ - 1]}
    /\ UNCHANGED redis_lists
    /\ UNCHANGED sqsRest
    /\ UNCHANGED lifeVars
    /\ UNCHANGED <<ddbVars, sandboxVars, dnsVars>>

\* -------------------------------------------------- aws_lambda_emulator
\* create_function: a row; function_name is unique over all environments
CreateFunction(rq, name) ==
    /\ Served
    /\ LET e == SubdomainEnvironment(rq) IN
       /\ e # NoEnv
       /\ lambda_functions' =
             IF \E f \in lambda_functions : f.function_name = name
             THEN lambda_functions
             ELSE lambda_functions \cup
                     {[id |-> FreshId, environment_id |-> e,
                       function_name |-> name]}
    /\ UNCHANGED <<mock_vpcs, mock_subnets, mock_security_groups,
                   mock_internet_gateways, oci_network, last_delete_vcn,
                   dynamodb_tables, dynamodb_items, sqs_queues, redis_lists,
                   lambda_invocations, credits>>
    /\ UNCHANGED lifeVars
    /\ UNCHANGED <<ddbVars, sqsVars, sandboxVars, dnsVars>>

\* int((time.time() - start_time) * 1000) of an invocation
DurationsMs == {0, 50, 100}

\* the billed_duration_ms column of an invocation that failed: None
NoBilledDuration == 0 - 1

\* ((duration_ms // 100) + 1) * 100
billed_duration_ms(duration_ms) == ((duration_ms \div 100) + 1) * 100

\* invoke_function: the mock response is built and the invocation is
\* recorded with its duration and billed duration, with status 500 and no
\* billed duration when the payload is not JSON
InvokeFunction(rq, name, payload_ok) ==
    /\ Served
    /\ LET e == SubdomainEnvironment(rq) IN
       /\ e # NoEnv
       /\ \E f \in { g \in lambda_functions :
                        g.environment_id = e /\ g.function_name = name } :
          \E duration_ms \in DurationsMs :
             lambda_invocations' = lambda_invocations \cup
                {[id |-> FreshId, function_id |-> f.id,
                  status_code |-> IF payload_ok THEN 200 ELSE 500,
                  duration_ms |-> duration_ms,
                  billed_duration_ms |->
                     IF payload_ok THEN billed_duration_ms(duration_ms)
                     ELSE NoBilledDuration]}
    /\ UNCHANGED <<mock_vpcs, mock_subnets, mock_security_groups,
                   mock_internet_gateways, oci_network, last_delete_vcn,
                   dynamodb_tables, dynamodb_items, sqs_queues, redis_lists,
                   lambda_functions, credits>>
    /\ UNCHANGED lifeVars
    /\ UNCHANGED <<ddbVars, sqsVars, sandboxVars, dnsVars>>

\* ------------------------------------------- execute_code, DockerSandbox
\* the other variables of the model, for the steps of execute_code
usageRest ==
    <<mock_vpcs, mock_subnets, mock_security_groups, mock_internet_gateways,
      oci_network, last_delete_vcn, dynamodb_tables, dynamodb_items,
      sqs_queues, redis_lists, lambda_functions, lambda_invocations, credits,
      ncalls>>

UsageRows(session) == { r \in usage_records : r.session_id = session }

\* POST /execute of an anonymous client, check_and_increment up to its
\* check: _get_usage reads the count of the record query.first() returns,
\* and a count at the limit is answered with 429
GetUsage(w, session) ==
    /\ sandbox[w].pc = "idle"
    /\ \E pick \in IF UsageRows(session) = {} THEN {0}
                   ELSE { r.id : r \in UsageRows(session) } :
          LET usage == IF pick = 0 THEN 0
                       ELSE (CHOOSE r \in usage_records : r.id = pick).execution_count
          IN sandbox' = [sandbox EXCEPT ![w] =
                [IdleSandbox EXCEPT
                   !.pc = IF usage >= RUNS_ANONYMOUS THEN "rejected"
                          ELSE "increment",
                   !.session = session, !.record = pick, !.count = usage]]
    /\ UNCHANGED <<executions, usage_records, sandbox_containers>>
    /\ UNCHANGED usageRest
    /\ UNCHANGED lifeVars
    /\ UNCHANGED <<ddbVars, sqsVars, dnsVars>>

\* the HTTPException of check_and_increment ends the request
Reject(w) ==
    /\ sandbox[w].pc = "rejected"
    /\ sandbox' = [sandbox EXCEPT ![w] = IdleSandbox]
    /\ UNCHANGED <<executions, usage_records, sandbox_containers>>
    /\ UNCHANGED usageRest
    /\ UNCHANGED lifeVars
    /\ UNCHANGED <<ddbVars, sqsVars, dnsVars>>

\* _increment_usage up to its commit: query.first() returns a record of the
\* session; the record _get_usage loaded keeps the count that was loaded
IncrementUsage(w) ==
    /\ sandbox[w].pc = "increment"
    /\ \E pick \in IF UsageRows(sandbox[w].session) = {} THEN {0}
                   ELSE { r.id : r \in UsageRows(sandbox[w].session) } :
          sandbox' = [sandbox EXCEPT
             ![w].pc = "begin",
             ![w].record = pick,
             ![w].count =
                IF pick = 0 THEN 0
                ELSE IF pick = sandbox[w].record THEN sandbox[w].count
                ELSE (CHOOSE r \in usage_records : r.id = pick).execution_count]
    /\ UNCHANGED <<executions, usage_records, sandbox_containers>>
    /\ UNCHANGED usageRest
    /\ UNCHANGED lifeVars
    /\ UNCHANGED <<ddbVars, sqsVars, dnsVars>>

\* the commit of _increment_usage writes the loaded count plus one, or adds
\* a record with count 1; then execute_code stores the Execution row,
\* pending and then running
BeginExecute(w) ==
    /\ sandbox[w].pc = "begin"
    /\ usage_records' =
          IF sandbox[w].record = 0
          THEN usage_records \cup
                  {[id |-> Cardinality(usage_records) + 1,
                    session_id |-> sandbox[w].session, execution_count |-> 1]}
          ELSE { IF r.id = sandbox[w].record
                 THEN [r EXCEPT !.execution_count = sandbox[w].count + 1]
                 ELSE r : r \in usage_records }
    /\ LET id == Cardinality(executions) + 1 IN
       /\ executions' = executions \cup
             {[id |-> id, session_id |-> sandbox[w].session,
               status |-> EXEC_RUNNING, exit_code |-> Null,
               security_violations |-> {}, container_id |-> 0]}
       /\ sandbox' = [sandbox EXCEPT ![w].pc = "run", ![w].execution = id]
    /\ UNCHANGED sandbox_containers
    /\ UNCHANGED usageRest
    /\ UNCHANGED lifeVars
    /\ UNCHANGED <<ddbVars, sqsVars, dnsVars>>

\* the dict of the except branches of execute
FailedResult ==
    [status |-> EXEC_FAILED, exit_code |-> Null, security_violations |-> {},
     container_id |-> 0]

sandboxRest ==
    <<mock_vpcs, mock_subnets, mock_security_groups, mock_internet_gateways,
      oci_network, last_delete_vcn, dynamodb_tables, dynamodb_items,
      sqs_queues, redis_lists, lambda_functions, lambda_invocations, credits,
      ncalls, executions, usage_records>>

\* execute up to the return of containers.run: the image is looked up
\* before the try block, so its failure ends the request with the row left
\* running; containers.run creates the container and starts it, and when
\* the start fails the created container is bound to no variable
SandboxRun(w, run) ==
    /\ sandbox[w].pc = "run"
    /\ LET id == sandbox[w].execution IN
       CASE run = "image_fails" ->
               /\ sandbox' = [sandbox EXCEPT ![w] = IdleSandbox]
               /\ UNCHANGED sandbox_containers
         [] run = "create_fails" ->
               /\ sandbox' = [sandbox EXCEPT ![w].pc = "finish",
                                             ![w].result = FailedResult]
               /\ UNCHANGED sandbox_containers
         [] run = "start_fails" ->
               /\ sandbox' = [sandbox EXCEPT ![w].pc = "finish",
                                             ![w].result = FailedResult]
               /\ sandbox_containers' = sandbox_containers \cup {id}
         [] run = "started" ->
               /\ sandbox' = [sandbox EXCEPT ![w].pc = "wait"]
               /\ sandbox_containers' = sandbox_containers \cup {id}
    /\ UNCHANGED sandboxRest
    /\ UNCHANGED lifeVars
    /\ UNCHANGED <<ddbVars, sqsVars, dnsVars>>

\* _detect_violations: the patterns found in the logs, and the failure of
\* inspect_container
_detect_violations(logs, inspect_ok) ==
    (IF logs = "suspicious" THEN {"Suspicious activity detected"} ELSE {})
    \cup (IF inspect_ok THEN {} ELSE {"Inspection error"})

\* the dict execute returns after containers.run returned a container
ExecuteResult(id, wait, exit_code, logs, inspect_ok, stats_ok) ==
    IF wait # "exit" \/ logs = "fails" \/ ~stats_ok
    THEN FailedResult
    ELSE LET violations == _detect_violations(logs, inspect_ok) IN
         [status |-> IF exit_code = 0 /\ violations = {}
                     THEN EXEC_COMPLETED ELSE EXEC_FAILED,
          exit_code |-> exit_code, security_violations |-> violations,
          container_id |-> id]

\* execute from container.wait to its return: a wait that times out or
\* fails, and a failure of logs, inspect or stats, end in the except
\* branch; the finally block removes the container and ignores a failure
\* of the removal
SandboxWait(w, wait, exit_code, logs, inspect_ok, stats_ok, remove_ok) ==
    /\ sandbox[w].pc = "wait"
    /\ LET id == sandbox[w].execution IN
       /\ sandbox' = [sandbox EXCEPT
             ![w].pc = "finish", ![w].waited = wait,
             ![w].detected =
                IF wait = "exit" /\ logs # "fails"
                THEN _detect_violations(logs, inspect_ok) ELSE {},
             ![w].result =
                ExecuteResult(id, wait, exit_code, logs, inspect_ok, stats_ok)]
       /\ sandbox_containers' =
             IF remove_ok THEN sandbox_containers \ {id} ELSE sandbox_containers
    /\ UNCHANGED sandboxRest
    /\ UNCHANGED lifeVars
    /\ UNCHANGED <<ddbVars, sqsVars, dnsVars>>

\* the status execute_code stores: that of the result, replaced by
\* security_violation when the result lists a violation
FinalStatus(result) ==
    IF result.security_violations # {}
    THEN EXEC_SECURITY_VIOLATION ELSE result.status

\* execute_code after sandbox.execute returned: the row is updated from the
\* result and committed
FinishExecute(w) ==
    /\ sandbox[w].pc = "finish"
    /\ LET r == sandbox[w].result IN
       executions' =
          { IF x.id = sandbox[w].execution
            THEN [x EXCEPT !.status = FinalStatus(r),
                           !.exit_code = r.exit_code,
                           !.security_violations = r.security_violations,
                           !.container_id = r.container_id]
            ELSE x : x \in executions }
    /\ sandbox' = [sandbox EXCEPT ![w] = IdleSandbox]
    /\ UNCHANGED <<usage_records, sandbox_containers>>
    /\ UNCHANGED <<mock_vpcs, mock_subnets, mock_security_groups,
                   mock_internet_gateways, oci_network, last_delete_vcn,
                   dynamodb_tables, dynamodb_items, sqs_queues, redis_lists,
                   lambda_functions, lambda_invocations, credits, ncalls>>
    /\ UNCHANGED lifeVars
    /\ UNCHANGED <<ddbVars, sqsVars, dnsVars>>

\* ------------------------------------------------ DNS records, DNSServer
\* DNSQueryType
QTYPE_A == 1
QTYPE_SOA == 6
QTYPE_TXT == 16

\* the type_map of handle_query, for the record types of the model; SOA and
\* unknown types have no entry
QueryTypeMap == [t \in {QTYPE_A, QTYPE_TXT} |-> IF t = QTYPE_A THEN "A" ELSE "TXT"]

\* the type_map of build_dns_response
RecordTypeMap(record_type) == IF record_type = "TXT" THEN QTYPE_TXT ELSE QTYPE_A

DnsRecordTypes == {"A", "TXT"}

\* names a client sends; str.lower maps them to the stored form
DnsNames == {"a.dev", "A.DEV"}
QueryNames == DnsNames \cup {"b.dev"}

lower(name) == IF name = "A.DEV" THEN "a.dev" ELSE name

\* record values, as sequences of characters
DigitChars == <<"0", "1", "2", "3", "4", "5", "6", "7", "8", "9">>

DnsValues ==
    { <<"1", "0", ".", "0", ".", "0", ".", "2", "5", "5">>,
      <<"1", ".", "2", ".", "3", ".", "4">>,
      <<"1", ".", "2", ".", "3", ".", "2", "5", "6">>,
      <<"1", ".", "2", ".", "x">> }

DnsTtls == {300}

\* two-byte transaction ids of the queries
TransactionIds == { <<0, 7>>, <<255, 255>> }

\* struct.unpack('>H') and struct.pack('>H')
Unpack16(two) == two[1] * 256 + two[2]

Pack16(n) == << n \div 256, n % 256 >>

\* value.split('.')
RECURSIVE split(_)
split(value) ==
    IF value = <<>> THEN << <<>> >>
    ELSE LET rest == split(Tail(value)) IN
         IF Head(value) = "." THEN << <<>> >> \o rest
         ELSE << <<Head(value)>> \o rest[1] >> \o Tail(rest)

DigitValue(c) == (CHOOSE i \in 1..10 : DigitChars[i] = c) - 1

IsDigit(c) == \E i \in 1..10 : DigitChars[i] = c

LastDigitOnly(x) == DigitValue(x[Len(x)])

RECURSIVE Decimal(_)
Decimal(x) ==
    IF x = <<>> THEN 0
    ELSE Decimal(SubSeq(x, 1, Len(x) - 1)) * 10 + DigitValue(x[Len(x)])

\* int(x) of a string of the model's alphabet; Null stands for ValueError
int(x) ==
    IF x = <<>> \/ \E i \in 1..Len(x) : ~IsDigit(x[i]) THEN Null
    ELSE Decimal(x)

\* validate_value of DNSRecordCreate
validate_value(record_type, value) ==
    record_type = "A"
    => /\ Len(split(value)) = 4
       /\ \A i \in 1..4 :
             int(split(value)[i]) # Null /\ int(split(value)[i]) <= 255

dnsRest ==
    <<mock_vpcs, mock_subnets, mock_security_groups, mock_internet_gateways,
      oci_network, last_delete_vcn, dynamodb_tables, dynamodb_items,
      sqs_queues, redis_lists, lambda_functions, lambda_invocations, credits>>

\* POST /{environment_id}/dns: the request is validated, the name is stored
\* in lower case, and a record of the same environment, name and type is
\* answered with 409
CreateDnsRecord(e, name, record_type, value, ttl) ==
    /\ Served
    /\ environments[e].exists
    /\ validate_value(record_type, value)
    /\ ~\E r \in dns_records :
          /\ r.environment_id = e
          /\ r.name = lower(name)
          /\ r.record_type = record_type
    /\ dns_records' = dns_records \cup
          {[id |-> FreshId, environment_id |-> e, name |-> lower(name),
            record_type |-> record_type, value |-> value, ttl |-> ttl]}
    /\ UNCHANGED dns_answer
    /\ UNCHANGED dnsRest
    /\ UNCHANGED lifeVars
    /\ UNCHANGED <<ddbVars, sqsVars, sandboxVars>>

\* PATCH /{environment_id}/dns/{record_id}: the value of DNSRecordUpdate has
\* no validator and is stored as sent
UpdateDnsRecord(e, record_id, value) ==
    /\ Served
    /\ environments[e].exists
    /\ \E r \in dns_records : r.id = record_id /\ r.environment_id = e
    /\ dns_records' =
          { IF r.id = record_id THEN [r EXCEPT !.value = value] ELSE r :
            r \in dns_records }
    /\ UNCHANGED dns_answer
    /\ UNCHANGED dnsRest
    /\ UNCHANGED lifeVars
    /\ UNCHANGED <<ddbVars, sqsVars, sandboxVars>>

\* the RDATA build_dns_response writes for a record; ok is FALSE when the
\* code raises: int() of a part that is no number, bytes() of a number
\* above 255, append() of a text length above 255
Rdata(record) ==
    IF record.record_type = "A"
    THEN LET parts == split(record.value)
             octets == [i \in 1..Len(parts) |-> int(parts[i])] IN
         IF \E i \in 1..Len(octets) : octets[i] = Null \/ octets[i] > 255
         THEN [ok |-> FALSE, rdata |-> <<>>]
         ELSE [ok |-> TRUE, rdata |-> octets]
    ELSE IF Len(record.value) > 255
         THEN [ok |-> FALSE, rdata |-> <<>>]
         ELSE [ok |-> TRUE, rdata |-> <<Len(record.value)>> \o record.value]

\* build_error_response
build_error_response(transaction_id, rcode) ==
    [id |-> Pack16(transaction_id), flags |-> 32768 + rcode, qdcount |-> 0,
     ancount |-> 0, answers |-> <<>>]

\* build_dns_response: one answer for each record, in the order of the
\* list; an exception while building answers with server failure
build_dns_response(transaction_id, query_type, records) ==
    IF \E i \in 1..Len(records) : ~Rdata(records[i]).ok
    THEN build_error_response(transaction_id, 2)
    ELSE [id |-> Pack16(transaction_id), flags |-> 34176, qdcount |-> 1,
          ancount |-> Len(records),
          answers |->
             [i \in 1..Len(records) |->
                [record |-> records[i].id, value |-> records[i].value,
                 type |-> RecordTypeMap(records[i].record_type), class |-> 1,
                 ttl |-> records[i].ttl,
                 rdlength |-> Len(Rdata(records[i]).rdata),
                 rdata |-> Rdata(records[i]).rdata]]]

\* handle_query of a well-formed query: parse_dns_query reads the
\* transaction id; the records of the name in lower case and of the mapped
\* type are looked up in every environment
HandleQuery(id_bytes, query_name, query_type) ==
    /\ Served
    /\ LET transaction_id == Unpack16(id_bytes)
           query == [id |-> id_bytes, query_name |-> query_name,
                     query_type |-> query_type] IN
       IF query_type \notin DOMAIN QueryTypeMap
       THEN dns_answer' =
               [request |-> FreshId, query |-> query,
                response |-> build_error_response(transaction_id, 4)]
       ELSE LET records ==
                   { r \in dns_records :
                        /\ r.name = lower(query_name)
                        /\ r.record_type = QueryTypeMap[query_type] } IN
            IF records = {}
            THEN dns_answer' =
                    [request |-> FreshId, query |-> query,
                     response |-> build_error_response(transaction_id, 3)]
            ELSE \E order \in Orders(records) :
                    dns_answer' =
                       [request |-> FreshId, query |-> query,
                        response |->
                           build_dns_response(transaction_id, query_type,
                                              order)]
    /\ UNCHANGED dns_records
    /\ UNCHANGED dnsRest
    /\ UNCHANGED lifeVars
    /\ UNCHANGED <<ddbVars, sqsVars, sandboxVars>>

\* ---------------------------------------------------------- specification
\* the handlers of one provisioning workflow
Provision(e) ==
    \/ AllocQuery(e)
    \/ AllocTry(e)
    \/ \E ok \in BOOLEAN : RunContainer(e, ok)
    \/ \E ok \in BOOLEAN : ProvisionOciStorage(e, ok)
    \/ ProvisionCommit(e)
    \/ ProvisionExcept(e)
    \/ CreateExcept(e)

Destroy(w) ==
    \/ \E e \in Envs : BeginDestroy(w, e)
    \/ DestroyReleasePorts(w)
    \/ \E failed \in SUBSET ContainerNames, fatal \in 0..2,
          kept \in SUBSET StorageServices :
          DestroyResources(w, failed, fatal, kept)
    \/ DestroyCloseLog(w)
    \/ DestroySetStatus(w)
    \/ DestroyExcept(w)
    \/ DestroyReject(w)

Stop(p) ==
    \/ \E failed \in SUBSET ContainerNames, fatal \in 0..2 :
          StopContainers(p, failed, fatal)
    \/ StopCloseLog(p)
    \/ StopSetStatus(p)

Start(w) ==
    \/ \E e \in Envs : BeginStart(w, e)
    \/ \E failed \in SUBSET ContainerNames, fatal \in 0..2 :
          StartContainers(w, failed, fatal)
    \/ StartOpenLog(w)
    \/ StartSetStatus(w)

\* the lifecycle of one environment: every handler and the sweep
LifecycleEnvs == {"env-a"}

Next ==
    \/ Tick
    \/ \E e \in LifecycleEnvs, s \in ServiceLists :
          CreateEnvironment(e, s, AUTO_SHUTDOWN_HOURS_MIN)
    \/ \E e \in Envs : Provision(e)
    \/ \E w \in Workers, e \in Envs : BeginStop(w, e)
    \/ \E p \in Procs : Stop(p)
    \/ \E w \in Workers : Start(w)
    \/ \E w \in Workers : Destroy(w)
    \/ \E order \in UNION { Orders(S) : S \in SUBSET Envs } : SweepQuery(order)
    \/ SweepCheck

Spec == Init /\ [][Next]_vars

\* concurrent provisioning workflows sharing the port range, and the destroy
\* requests of one worker
PortsWorker == "w1"

NextPorts ==
    \/ \E e \in Envs, s \in ServiceLists :
          CreateEnvironment(e, s, AUTO_SHUTDOWN_HOURS_MIN)
    \/ \E e \in Envs : Provision(e)
    \/ Destroy(PortsWorker)

SpecPorts == Init /\ [][NextPorts]_vars

\* the emulators of one environment with a redis container, beside its
\* lifecycle requests served by one worker
EmuEnvs == {"env-a"}

EmuWorker == "w1"

EmuServices == <<"redis">>

EmuItems == { i \in Items : i.pk = "k1" /\ i.body = <<"x">> }

NextEmu ==
    \/ \E e \in EmuEnvs : CreateEnvironment(e, EmuServices, AUTO_SHUTDOWN_HOURS_MIN)
    \/ \E e \in Envs : AllocQuery(e)
    \/ \E e \in Envs : AllocTry(e)
    \/ \E e \in Envs, ok \in BOOLEAN : RunContainer(e, ok)
    \/ \E e \in Envs : ProvisionCommit(e)
    \/ \E e \in Envs : ProvisionExcept(e)
    \/ \E e \in Envs : CreateExcept(e)
    \/ \E e \in Envs : BeginStop(EmuWorker, e)
    \/ Stop(EmuWorker)
    \/ Destroy(EmuWorker)
    \/ /\ ncalls < MaxEmuCalls
       /\ \E rq \in EmuRequests, ok \in BOOLEAN : CreateVpc(rq, ok)
    \/ /\ ncalls < MaxEmuCalls
       /\ \E rq \in EmuRequests, v \in VpcIds, failAt \in 0..MaxCalls :
             DeleteVpc(rq, v, failAt)
    \/ /\ ncalls < MaxEmuCalls
       /\ \E rq \in EmuRequests, n \in ResourceNames : CreateTable(rq, n)
    \/ /\ ncalls < MaxEmuCalls
       /\ \E rq \in EmuRequests, n \in ResourceNames, i \in EmuItems :
             PutItemQuery(EmuWorker, rq, n, i)
    \/ PutItemCommit(EmuWorker)
    \/ /\ ncalls < MaxEmuCalls
       /\ \E rq \in EmuRequests, n \in ResourceNames : CreateQueue(rq, n)
    \/ /\ ncalls < MaxEmuCalls
       /\ \E rq \in EmuRequests, n \in ResourceNames, ok \in BOOLEAN :
             SendMessage(rq, n, ok)
    \/ /\ ncalls < MaxEmuCalls
       /\ \E rq \in EmuRequests, n \in ResourceNames : CreateFunction(rq, n)
    \/ /\ ncalls < MaxEmuCalls
       /\ \E rq \in EmuRequests, n \in ResourceNames, ok \in BOOLEAN :
             InvokeFunction(rq, n, ok)

SpecEmu == Init /\ [][NextEmu]_vars

\* the VPC emulator of one running environment
VpcServices == <<"aws_s3">>

NextVpc ==
    \/ \E e \in EmuEnvs : CreateEnvironment(e, VpcServices, AUTO_SHUTDOWN_HOURS_MIN)
    \/ \E e \in Envs, ok \in BOOLEAN : ProvisionOciStorage(e, ok)
    \/ \E e \in Envs : ProvisionCommit(e)
    \/ \E rq \in EmuRequests, ok \in BOOLEAN : CreateVpc(rq, ok)
    \/ \E rq \in EmuRequests, v \in VpcIds, ok \in BOOLEAN : CreateSubnet(rq, v, ok)
    \/ \E rq \in EmuRequests, v \in VpcIds, ok \in BOOLEAN :
          CreateSecurityGroup(rq, v, ok)
    \/ \E rq \in EmuRequests : CreateInternetGateway(rq)
    \/ \E rq \in EmuRequests, g \in VpcIds, v \in VpcIds, ok \in BOOLEAN :
          AttachInternetGateway(rq, g, v, ok)
    \/ \E rq \in EmuRequests, v \in VpcIds, failAt \in 0..MaxCalls :
          DeleteVpc(rq, v, failAt)

SpecVpc == Init /\ [][NextVpc]_vars

\* the DynamoDB emulator of one running environment, served by two workers
NextDynamo ==
    \/ \E e \in EmuEnvs : CreateEnvironment(e, VpcServices, AUTO_SHUTDOWN_HOURS_MIN)
    \/ \E e \in Envs, ok \in BOOLEAN : ProvisionOciStorage(e, ok)
    \/ \E e \in Envs : ProvisionCommit(e)
    \/ \E rq \in EmuRequests, n \in ResourceNames : CreateTable(rq, n)
    \/ \E w \in Workers, rq \in EmuRequests, n \in ResourceNames, i \in Items :
          PutItemQuery(w, rq, n, i)
    \/ \E w \in Workers, rq \in EmuRequests, n \in ResourceNames, i \in Items :
          UpdateItem(w, rq, n, i)
    \/ \E w \in Workers : PutItemCommit(w)
    \/ \E rq \in EmuRequests, n \in ResourceNames, k \in ItemKeys :
          GetItem(rq, n, k)
    \/ \E w \in Workers, rq \in EmuRequests, n \in ResourceNames, k \in ItemKeys :
          DeleteItemQuery(w, rq, n, k)
    \/ \E w \in Workers : DeleteItemCommit(w)

SpecDynamo == Init /\ [][NextDynamo]_vars

\* the SQS emulator of one running environment
NextSqs ==
    \/ \E e \in EmuEnvs : CreateEnvironment(e, VpcServices, AUTO_SHUTDOWN_HOURS_MIN)
    \/ \E e \in Envs, ok \in BOOLEAN : ProvisionOciStorage(e, ok)
    \/ \E e \in Envs : ProvisionCommit(e)
    \/ \E rq \in EmuRequests, n \in ResourceNames : CreateQueue(rq, n)
    \/ \E rq \in EmuRequests, n \in ResourceNames, ok \in BOOLEAN :
          SendMessage(rq, n, ok)
    \/ \E rq \in EmuRequests, n \in ResourceNames,
          redis \in {"ok", "lpop_fails", "setex_fails"} :
          ReceiveMessage(rq, n, redis)
    \/ \E h \in ReceiptHandles : VisibilityTimeoutElapses(h)
    \/ \E rq \in EmuRequests, n \in ResourceNames, h \in ReceiptHandles :
          DeleteMessage(rq, n, h)

SpecSqs == Init /\ [][NextSqs]_vars

\* the sandbox, served by two workers
Admitted ==
    Cardinality(executions)
    + Cardinality({ w \in Workers : sandbox[w].pc \in {"increment", "begin"} })

NextSandbox ==
    \/ /\ Admitted < MaxExecutions
       /\ \E w \in Workers, session \in Sessions : GetUsage(w, session)
    \/ \E w \in Workers : IncrementUsage(w)
    \/ \E w \in Workers : BeginExecute(w)
    \/ \E w \in Workers,
          run \in {"image_fails", "create_fails", "start_fails", "started"} :
          SandboxRun(w, run)
    \/ \E w \in Workers, wait \in {"exit", "timeout", "fails"},
          exit_code \in {0, 1}, logs \in {"clean", "suspicious", "fails"},
          inspect_ok \in BOOLEAN, stats_ok \in BOOLEAN, remove_ok \in BOOLEAN :
          SandboxWait(w, wait, exit_code, logs, inspect_ok, stats_ok, remove_ok)
    \/ \E w \in Workers : FinishExecute(w)

SpecSandbox == Init /\ [][NextSandbox]_vars

\* the usage limit of one anonymous session, with two workers; the image of
\* the sandbox is missing, so that every admitted request ends at once
NextUsage ==
    \/ /\ Admitted < MaxUsageRuns
       /\ \E w \in Workers, session \in Sessions : GetUsage(w, session)
    \/ \E w \in Workers : Reject(w)
    \/ \E w \in Workers : IncrementUsage(w)
    \/ \E w \in Workers : BeginExecute(w)
    \/ \E w \in Workers : SandboxRun(w, "image_fails")

SpecUsage == Init /\ [][NextUsage]_vars

\* the DNS records of the environments and the DNS server
NextDns ==
    \/ \E e \in Envs : CreateEnvironment(e, VpcServices, AUTO_SHUTDOWN_HOURS_MIN)
    \/ /\ ncalls < MaxDnsCalls
       /\ \E e \in Envs, name \in DnsNames, record_type \in DnsRecordTypes,
             value \in DnsValues, ttl \in DnsTtls :
             CreateDnsRecord(e, name, record_type, value, ttl)
    \/ /\ ncalls < MaxDnsCalls
       /\ \E e \in Envs, record_id \in 1..MaxDnsCalls, value \in DnsValues :
             UpdateDnsRecord(e, record_id, value)
    \/ /\ ncalls < MaxDnsCalls
       /\ \E id_bytes \in TransactionIds, query_name \in QueryNames,
             query_type \in {QTYPE_A, QTYPE_SOA, QTYPE_TXT} :
             HandleQuery(id_bytes, query_name, query_type)

SpecDns == Init /\ [][NextDns]_vars

\* one running environment, its VPC requests, the clock and the sweep
NextIdle ==
    \/ Tick
    \/ \E e \in EmuEnvs : CreateEnvironment(e, VpcServices, AUTO_SHUTDOWN_HOURS_MIN)
    \/ \E e \in Envs, ok \in BOOLEAN : ProvisionOciStorage(e, ok)
    \/ \E e \in Envs : ProvisionCommit(e)
    \/ \E rq \in EmuRequests, ok \in BOOLEAN : CreateVpc(rq, ok)
    \/ \E order \in UNION { Orders(S) : S \in SUBSET Envs } : SweepQuery(order)
    \/ SweepCheck
    \/ StopSetStatus(Sweeper)

SpecIdle == Init /\ [][NextIdle]_vars

\* the sweep loop over two environments that stay running, one with a
\* container and one without; the loop runs every five minutes for ever, and
\* the engine does not fail for ever
SweepServices(e) == IF e = "env-a" THEN <<"redis">> ELSE <<"aws_s3">>

SweepStopSucceeds ==
    \E failed \in SUBSET ContainerNames : StopContainers(Sweeper, failed, 0)

SweepPass ==
    \E order \in UNION { Orders(S) : S \in SUBSET Envs } :
       SweepBegin(order) /\ UNCHANGED nreq

NextSweep ==
    \/ Tick
    \/ \E e \in Envs : CreateEnvironment(e, SweepServices(e), AUTO_SHUTDOWN_HOURS_MIN)
    \/ \E e \in Envs : AllocQuery(e)
    \/ \E e \in Envs : AllocTry(e)
    \/ \E e \in Envs : RunContainer(e, TRUE)
    \/ \E e \in Envs : ProvisionOciStorage(e, TRUE)
    \/ \E e \in Envs : ProvisionCommit(e)
    \/ SweepPass
    \/ SweepCheck
    \/ Stop(Sweeper)

SpecSweep ==
    /\ Init /\ [][NextSweep]_vars
    /\ WF_vars(SweepPass)
    /\ WF_vars(SweepCheck)
    /\ WF_vars(Stop(Sweeper))
    /\ SF_vars(SweepStopSucceeds)

\* the emulators of two environments
NextIsolation ==
    \/ \E e \in Envs : CreateEnvironment(e, VpcServices, AUTO_SHUTDOWN_HOURS_MIN)
    \/ \E e \in Envs, ok \in BOOLEAN : ProvisionOciStorage(e, ok)
    \/ \E e \in Envs : ProvisionCommit(e)
    \/ /\ ncalls < MaxEmuCalls
       /\ \E rq \in EmuRequests, n \in ResourceNames : CreateTable(rq, n)
    \/ /\ ncalls < MaxEmuCalls
       /\ \E rq \in EmuRequests, n \in ResourceNames : CreateQueue(rq, n)
    \/ /\ ncalls < MaxEmuCalls
       /\ \E rq \in EmuRequests, n \in ResourceNames : CreateFunction(rq, n)

SpecIsolation == Init /\ [][NextIsolation]_vars

\* ================================================================ claims
Status(e) == environments[e].status

ActiveAllocations(e) ==
    { r \in port_allocations : r.environment_id = e /\ r.is_active }

\* C1: at no time do two active port allocations hold the same port, and two
\* allocator calls that have both returned hold different ports while their
\* allocations are active.
C1_ActivePortsDistinct ==
    /\ \A a, b \in port_allocations :
          (a.is_active /\ b.is_active /\ a.port = b.port) => a = b
    /\ \A e1, e2 \in Envs :
          (/\ e1 # e2
           /\ prov[e1].pc = "run_container" /\ prov[e2].pc = "run_container"
           /\ prov[e1].cursor = prov[e2].cursor)
          => \E r \in port_allocations : r.port = prov[e1].cursor /\ ~r.is_active

\* two allocators queried before either had inserted, and the one that lost
\* the race for the first port holds the second
C1_Witness ==
    \E e1, e2 \in Envs :
       /\ e1 # e2
       /\ prov[e1].allocated = {} /\ prov[e2].allocated = {}
       /\ \E a \in ActiveAllocations(e1) : a.port = PORT_RANGE_START
       /\ \E b \in ActiveAllocations(e2) : b.port = PORT_RANGE_START + 1

\* C2: an environment whose status is destroyed has no active port
\* allocation.
C2_DestroyedHoldsNoPort ==
    \A e \in Envs : Status(e) = DESTROYED => ActiveAllocations(e) = {}

\* C3: an environment has at most one usage log with period_end = null.
C3_AtMostOneOpenPeriod ==
    \A e \in Envs : Cardinality(OpenLogs(e)) <= 1

\* C4: once an environment's status is destroyed, no step changes it.
C4_DestroyedIsFinal ==
    [][\A e \in Envs : Status(e) = DESTROYED => environments'[e].status = DESTROYED]_vars

\* C5: every change of an environment's status follows an edge of the
\* lifecycle: provisioning->running, running->stopped, stopped->running,
\* running or stopped->destroying, destroying->destroyed, and any
\* non-terminal state->error (the row is created in provisioning).
LifecycleEdges ==
    { <<"none", PROVISIONING>>, <<PROVISIONING, RUNNING>>, <<RUNNING, STOPPED>>,
      <<STOPPED, RUNNING>>, <<RUNNING, DESTROYING>>, <<STOPPED, DESTROYING>>,
      <<DESTROYING, DESTROYED>> }
    \cup { <<s, ERROR>> : s \in {PROVISIONING, RUNNING, STOPPED, DESTROYING} }

C5_StatusFollowsLifecycle ==
    [][\A e \in Envs :
          environments'[e].status # Status(e)
          => <<Status(e), environments'[e].status>> \in LifecycleEdges]_vars

\* no handler or sweep step is in flight on the environment
Quiescent(e) ==
    /\ prov[e].pc \in {"none", "done"}
    /\ \A p \in Procs : req[p].env # e

Populated(row) ==
    /\ row.endpoints # {}
    /\ row.docker_containers # <<>> \/ row.oci_resources # {}

Cleared(row) ==
    /\ row.endpoints = {}
    /\ row.docker_containers = <<>>
    /\ row.oci_resources = {}

Handles(row) == <<row.endpoints, row.docker_containers, row.oci_resources>>

\* C6: between lifecycle operations, the endpoints and handle maps of an
\* environment are populated if its status is running and cleared otherwise.
C6_PopulatedIffRunning ==
    \A e \in Envs :
       (environments[e].exists /\ Quiescent(e))
       => IF Status(e) = RUNNING THEN Populated(environments[e])
          ELSE Cleared(environments[e])

\* C6 as amended: a running environment has populated endpoints and handle
\* maps, and no step of a stop, start or destroy handler or of the sweep
\* changes the maps: they stay as provision committed them.
C6_RunningIsPopulated ==
    [][\A e \in Envs :
          /\ environments'[e].status = RUNNING => Populated(environments'[e])
          /\ req' # req => Handles(environments'[e]) = Handles(environments[e])]_vars

\* a stop and a destroy have completed and the maps are still populated
C6_Witness ==
    \E e \in Envs :
       /\ Quiescent(e)
       /\ Status(e) \in {STOPPED, DESTROYED}
       /\ Populated(environments[e])
       /\ environments[e].docker_containers # <<>>

\* C7: the step that completes a stop (the status update after
\* EnvironmentProvisioner.stop returned) leaves the environment without an
\* open usage period.
C7_StopClosesPeriod ==
    [][\A p \in Procs :
          (req[p].pc = "stop_status" /\ req'[p].pc # "stop_status")
          => \A i \in 1..Len(usage_logs') :
                usage_logs'[i].environment_id = req[p].env
                => usage_logs'[i].period_end # Null]_vars

\* C8: whenever a step makes an environment running, exactly one usage period
\* is open for it, and every start opens a new period before it sets the
\* status.
C8_RunningHasOneOpenPeriod ==
    [][/\ \A e \in Envs :
             (environments'[e].status = RUNNING /\ Status(e) # RUNNING)
             => Cardinality({ i \in 1..Len(usage_logs') :
                    /\ usage_logs'[i].environment_id = e
                    /\ usage_logs'[i].period_end = Null }) = 1
       /\ \A w \in Workers :
             (req'[w].pc = "start_status" /\ req[w].pc # "start_status")
             => Len(usage_logs') = Len(usage_logs) + 1]_vars

LogsOf(logs, e) == { i \in 1..Len(logs) : logs[i].environment_id = e }

\* C9: a provision that failed on one of its services ends with status
\* error, the environment is never running afterwards, and it has no usage
\* period.
C9_FailedProvisionIsError ==
    [][\A e \in Envs :
          prov'[e].outcome = "failed"
          => /\ environments'[e].status # RUNNING
             /\ LogsOf(usage_logs', e) = {}
             /\ prov[e].outcome # "failed" => environments'[e].status = ERROR]_vars

\* provision gave up for want of a port, resp. after a container had started
C9_Witness ==
    /\ \E e \in Envs :
          /\ prov[e].outcome = "failed" /\ Status(e) = ERROR
          /\ prov[e].attempt = MAX_RETRIES
    /\ \E e \in Envs :
          /\ prov[e].outcome = "failed" /\ Status(e) = ERROR
          /\ prov[e].docker_containers # <<>>

\* C10: when a failed provision has left the environment in error, every
\* container and bucket it had started is in the persisted handle maps.
C10_ErrorKeepsHandles ==
    \A e \in Envs :
       (prov[e].outcome = "failed" /\ Status(e) = ERROR)
       => /\ \A n \in ContainerNames :
                docker[<<e, n>>] # "absent"
                => n \in Range(environments[e].docker_containers)
          /\ \A s \in StorageServices :
                <<e, s>> \in buckets => s \in environments[e].oci_resources

PortRange == PORT_RANGE_START..PORT_RANGE_END

\* C11: the allocator reports exhaustion only when every port of the range
\* has an active allocation (a released port counts as free): it never gives
\* up on an attempt whose query found a port without an active allocation
\* that is still without one.
C11_FreePortIsAllocated ==
    [][\A e \in Envs :
          (/\ prov[e].pc = "alloc_try" /\ prov'[e].pc = "except"
           /\ prov[e].allocated = ActivePorts)
          => PortRange \subseteq ActivePorts]_vars

\* no other provision and no destroy runs, and the allocator's query result
\* is the current set of active ports
AllocatesAlone(e) ==
    /\ \A f \in Envs \ {e} : prov[f].pc \in {"none", "done"}
    /\ \A p \in Procs : req[p].pc = "idle"
    /\ prov[e].allocated = ActivePorts

\* C12: without concurrent allocators, the port the allocator returns is the
\* lowest port of the range without an active allocation.
C12_LowestFreePort ==
    [][\A e \in Envs :
          (/\ prov[e].pc = "alloc_try"
           /\ prov'[e].pc = "run_container"
           /\ AllocatesAlone(e))
          => prov'[e].cursor = Min(PortRange \ ActivePorts)]_vars

\* C13: a destroy request on an environment whose status is destroyed is
\* rejected, and neither its first step nor its end changes the environment
\* rows, the port allocations or the usage logs.
C13_SecondDestroyChangesNothing ==
    [][\A w \in Workers :
          (\/ /\ req[w].pc = "idle" /\ req'[w].kind = "destroy"
              /\ Status(req'[w].env) = DESTROYED
           \/ /\ req[w].pc = "rejected" /\ req'[w].pc # "rejected")
          => /\ req'[w].pc = "rejected" \/ req[w].pc = "rejected"
             /\ environments' = environments
             /\ port_allocations' = port_allocations
             /\ usage_logs' = usage_logs]_vars

\* a second destroy is being rejected on an environment that has released
\* allocations, a closed usage period and a cost
C13_Witness ==
    \E w \in Workers :
       /\ req[w].pc = "rejected"
       /\ Status(req[w].env) = DESTROYED
       /\ \E r \in port_allocations :
             r.environment_id = req[w].env /\ ~r.is_active
       /\ LogsOf(usage_logs, req[w].env) # {} /\ OpenLogs(req[w].env) = {}
       /\ environments[req[w].env].total_cost > 0

\* C14: in destroy, a NotFound or APIError on one container does not end the
\* teardown: every other container of the row is removed, the handler goes
\* on to close an open usage period, and then sets the status to destroyed.
C14_DestroySurvivesAdapterFailure ==
    [][\A w \in Workers :
          LET e == req[w].env IN
          /\ (/\ req[w].pc = "destroy_resources" /\ req'[w] # req[w]
              /\ req'[w].fatal = 0)
             => /\ req'[w].pc = "destroy_close_log"
                /\ \A c \in Range(environments[e].docker_containers) \ req'[w].warned :
                      docker'[<<e, c>>] = "absent"
          /\ (req[w].pc = "destroy_close_log" /\ req'[w] # req[w])
             => /\ req'[w].pc = "destroy_status"
                /\ OpenLogs(e) # {}
                   => \E i \in OpenLogs(e) : usage_logs'[i].period_end # Null
          /\ (req[w].pc = "destroy_status" /\ req'[w] # req[w])
             => environments'[e].status = DESTROYED]_vars

\* a destroy that met an adapter failure on one container has removed
\* another one and closed the usage period, and is about to set destroyed
C14_Witness ==
    \E w \in Workers :
       LET e == req[w].env IN
       /\ req[w].pc = "destroy_status"
       /\ req[w].warned # {} /\ req[w].fatal = 0
       /\ \E c \in Range(environments[e].docker_containers) \ req[w].warned :
             docker[<<e, c>>] = "absent"
       /\ \E c \in req[w].warned : docker[<<e, c>>] # "absent"
       /\ LogsOf(usage_logs, e) # {} /\ OpenLogs(e) = {}

\* the columns of an environment row that stop may not change
StopFrame(row) ==
    <<row.exists, row.services, row.endpoints, row.docker_containers,
      row.oci_resources, row.hourly_rate, row.last_activity,
      row.auto_shutdown_hours>>

C15_DestroyedHasNoNetwork ==
    \A e \in Envs :
       (Status(e) = DESTROYED /\ Quiescent(e))
       => \A v \in mock_vpcs :
             v.environment_id = e
             => ~\E o \in oci_network : o.vcn_id = v.oci_vcn_id

\* C16: in every run of delete_vcn, the delete of the network is issued only
\* after a delete was issued for each of its subnets, gateways and security
\* groups; when the delete of a dependent fails, no delete of the network is
\* issued, the network stays and the result is false.
C16_DependentsBeforeParent ==
    [][last_delete_vcn' # last_delete_vcn
       => LET d == last_delete_vcn'
              deps == { o \in oci_network :
                           o.vcn_id = d.vcn_id /\ o.kind # "vcn" } IN
          /\ \A i \in 1..Len(d.calls) :
                d.calls[i].kind = "vcn"
                => \A o \in deps :
                      \E j \in 1..(i - 1) :
                         d.calls[j].kind = o.kind /\ d.calls[j].id = o.id
          /\ (\E j \in 1..Len(d.calls) :
                 d.calls[j].kind # "vcn" /\ ~d.calls[j].ok)
             => /\ ~d.result
                /\ \A i \in 1..Len(d.calls) : d.calls[i].kind # "vcn"
                /\ \A o \in oci_network :
                      (o.kind = "vcn" /\ o.id = d.vcn_id) => o \in oci_network']_vars

\* delete_vcn has deleted one dependent, failed on the next and left the
\* network in place
C16_Witness ==
    /\ Len(last_delete_vcn.calls) = 2
    /\ last_delete_vcn.calls[1].ok /\ ~last_delete_vcn.calls[2].ok
    /\ last_delete_vcn.calls[2].kind # "vcn"
    /\ ~last_delete_vcn.result
    /\ VcnExists(last_delete_vcn.vcn_id)

\* C18: a step that stores a VPC, table, queue or function record calls
\* neither the container engine nor the cloud network adapter, and the
\* first invocation of a function creates its container.
C18_CreateIsMetadataOnly ==
    [][/\ (\/ mock_vpcs' \ mock_vpcs # {}
           \/ dynamodb_tables' \ dynamodb_tables # {}
           \/ sqs_queues' \ sqs_queues # {}
           \/ lambda_functions' \ lambda_functions # {})
          => oci_network' = oci_network /\ docker' = docker
       /\ \A i \in lambda_invocations' \ lambda_invocations :
             (~\E k \in lambda_invocations : k.function_id = i.function_id)
             => docker' # docker]_vars

\* the emulated resources of an environment
EmuResources(e) ==
    <<{ r \in mock_vpcs : r.environment_id = e },
      { r \in mock_subnets : r.environment_id = e },
      { r \in mock_security_groups : r.environment_id = e },
      { r \in mock_internet_gateways : r.environment_id = e },
      { r \in dynamodb_tables : r.environment_id = e },
      { r \in sqs_queues : r.environment_id = e },
      { r \in lambda_functions : r.environment_id = e },
      [n \in ResourceNames |-> redis_lists[<<e, n>>]]>>

\* C19: no step changes an emulated resource of an environment that does not
\* exist or whose status is not running.
C19_OnlyRunningIsServed ==
    [][\A e \in Envs :
          (~environments[e].exists \/ Status(e) # RUNNING)
          => EmuResources(e)' = EmuResources(e)]_vars

\* C20: a step that stores an item, sends a message or records a successful
\* invocation lowers the balance of the owner, and a step that only stores
\* a table, queue or function record leaves it.
C20_DataPlaneIsBilled ==
    [][/\ (\/ dynamodb_items' # dynamodb_items
           \/ redis_lists' # redis_lists
           \/ \E i \in lambda_invocations' \ lambda_invocations :
                 i.status_code = 200)
          => credits' < credits
       /\ (\/ dynamodb_tables' \ dynamodb_tables # {}
           \/ sqs_queues' \ sqs_queues # {}
           \/ lambda_functions' \ lambda_functions # {})
          => credits' = credits]_vars

\* C21: the item get_item returns for a key is the item of the PutItem
\* completed last on that key, and no item when a DeleteItem was completed
\* last; of writes that overlapped, any may count as the last.
C21_GetReturnsLastWrite ==
    [][ddb_got' # ddb_got
       => ddb_got'.item \in ddb_written[<<ddb_got'.name, ddb_got'.key>>]]_vars

\* no put_item or delete_item handler is between its queries and its commit
DdbIdle == \A w \in Workers : ddb_req[w].pc = "idle"

\* C22: when no handler is at work on a table, its item_count is the number
\* of keys that have a stored item, and no key has two stored items.
C22_ItemCountMatchesKeys ==
    DdbIdle
    => \A t \in dynamodb_tables :
          /\ t.item_count =
                Cardinality({ k \in ItemKeys : ItemRows(t.id, k) # {} })
          /\ \A k \in ItemKeys : Cardinality(ItemRows(t.id, k)) <= 1

RECURSIVE SumOfSizes(_)
SumOfSizes(rows) ==
    IF rows = {} THEN 0
    ELSE LET r == CHOOSE x \in rows : TRUE IN
         JsonLength(r.item_data) + SumOfSizes(rows \ {r})

\* C23: when no handler is at work on a table, its table_size_bytes is the
\* sum of the serialized sizes of its stored items, and is not negative.
C23_TableSizeMatchesItems ==
    DdbIdle
    => \A t \in dynamodb_tables :
          /\ t.table_size_bytes =
                SumOfSizes({ i \in dynamodb_items : i.table_id = t.id })
          /\ t.table_size_bytes >= 0

\* C24: a message that was received and not deleted, and whose visibility
\* timeout has elapsed since, is in the list of its queue again or was
\* returned by a later receive.
C24_ReceivableAfterTimeout ==
    \A d \in sqs_delivered :
       (d.elapsed /\ ~d.deleted)
       => \/ \E i \in 1..Len(redis_lists[<<d.environment_id, d.queue_name>>]) :
                redis_lists[<<d.environment_id, d.queue_name>>][i] = d.message
          \/ \E x \in sqs_delivered :
                x.message = d.message /\ x.handle > d.handle

\* C25: a receive returns no message that was deleted with the receipt
\* handle of an earlier receive.
C25_DeletedNeverReturned ==
    [][\A d \in sqs_delivered' \ sqs_delivered :
          (d.message # NoMessage /\ ~\E x \in sqs_delivered : x.handle = d.handle)
          => ~\E x \in sqs_delivered : x.message = d.message /\ x.deleted]_vars

\* a message was received and deleted with its handle, and a later receive
\* on its queue was answered
C25_Witness ==
    \E d \in sqs_delivered, x \in sqs_delivered :
       /\ d.message # NoMessage /\ d.deleted
       /\ x.handle > d.handle + 1 /\ x.queue_name = d.queue_name

\* C26: when the wait of an execution timed out, the result of the sandbox
\* and the status execute_code stores are both timeout.
C26_TimeoutIsReported ==
    [][\A w \in Workers :
          (sandbox[w].pc = "finish" /\ sandbox'[w].pc = "idle"
           /\ sandbox[w].waited = "timeout")
          => /\ sandbox[w].result.status = EXEC_TIMEOUT
             /\ \A x \in executions' :
                   x.id = sandbox[w].execution => x.status = EXEC_TIMEOUT]_vars

\* C27: an execution for which _detect_violations returned a non-empty list
\* is stored with status security_violation, whatever its exit code, and an
\* execution stored as completed lists no violation and has exit code 0.
C27_ViolationDecidesStatus ==
    [][\A w \in Workers :
          (sandbox[w].pc = "finish" /\ sandbox'[w].pc = "idle")
          => \A x \in executions' :
                x.id = sandbox[w].execution
                => /\ sandbox[w].detected # {}
                      => x.status = EXEC_SECURITY_VIOLATION
                   /\ x.status = EXEC_COMPLETED
                      => x.security_violations = {} /\ x.exit_code = 0]_vars

\* C28: a container of the sandbox exists only while the execute that
\* created it has not returned.
C28_NoContainerAfterExecute ==
    \A c \in sandbox_containers :
       \E w \in Workers : sandbox[w].pc = "wait" /\ sandbox[w].execution = c

Rcode(response) == response.flags % 16

\* the records a query asks for
Matching(query) ==
    { r \in dns_records :
         /\ r.name = lower(query.query_name)
         /\ r.record_type \in DnsRecordTypes
         /\ query.query_type = RecordTypeMap(r.record_type) }

\* C29: the response to a query carries the transaction id of the query; its
\* response code is not-implemented (4) for a query type outside the
\* supported ones, name error (3) when no record matches, and otherwise it
\* is an answer response with exactly one answer for each matching record.
C29_QueryIsAnswered ==
    [][dns_answer' # dns_answer =>
         LET query == dns_answer'.query
             response == dns_answer'.response IN
         /\ response.id = query.id
         /\ query.query_type \notin {QTYPE_A, QTYPE_TXT}
            => Rcode(response) = 4
         /\ (query.query_type \in {QTYPE_A, QTYPE_TXT} /\ Matching(query) = {})
            => Rcode(response) = 3
         /\ (query.query_type \in {QTYPE_A, QTYPE_TXT} /\ Matching(query) # {})
            => /\ Rcode(response) = 0
               /\ response.ancount = Cardinality(Matching(query))
               /\ Len(response.answers) = Cardinality(Matching(query))
               /\ \A r \in Matching(query) :
                     Cardinality({ i \in 1..Len(response.answers) :
                                      response.answers[i].record = r.id }) = 1
      ]_vars

\* the decimal notation of a number
RECURSIVE str(_)
str(n) ==
    IF n < 10 THEN <<DigitChars[n + 1]>>
    ELSE str(n \div 10) \o <<DigitChars[(n % 10) + 1]>>

Dotted(a, b, c, d) ==
    str(a) \o <<".">> \o str(b) \o <<".">> \o str(c) \o <<".">> \o str(d)

AddressOctets == {0, 1, 2, 3, 4, 10, 255}

\* C30: the answer built for an A record whose value is the dotted address
\* a.b.c.d has an RDATA of length 4 with the bytes a, b, c, d in this order.
C30_ARecordRdata ==
    \A i \in 1..Len(dns_answer.response.answers) :
       LET answer == dns_answer.response.answers[i] IN
       answer.type = QTYPE_A
       => \A a, b, c, d \in AddressOctets :
             answer.value = Dotted(a, b, c, d)
             => answer.rdlength = 4 /\ answer.rdata = <<a, b, c, d>>

\* a response answers with the A records 10.0.0.255 and 1.2.3.4
C30_Witness ==
    /\ Len(dns_answer.response.answers) = 2
    /\ \E i, j \in 1..2 :
          /\ dns_answer.response.answers[i].type = QTYPE_A
          /\ dns_answer.response.answers[i].value = Dotted(10, 0, 0, 255)
          /\ dns_answer.response.answers[j].type = QTYPE_A
          /\ dns_answer.response.answers[j].value = Dotted(1, 2, 3, 4)

\* C31: a running environment that served an emulator request within its
\* auto_shutdown_hours is not stopped by the sweep: when the sweep sets an
\* environment to stopped, every VPC the environment created on request is
\* older than the threshold.
C31_ServedIsNotStopped ==
    [][\A e \in Envs :
          (/\ req[Sweeper].pc = "stop_status" /\ req[Sweeper].env = e
           /\ environments[e].status = RUNNING
           /\ environments'[e].status = STOPPED)
          => \A v \in mock_vpcs :
                v.environment_id = e
                => now - v.created_at > environments[e].auto_shutdown_hours]_vars

\* a running environment with auto-shutdown enabled whose inactivity exceeds
\* its threshold
Inactive(e) ==
    /\ environments[e].exists
    /\ environments[e].status = RUNNING
    /\ environments[e].auto_shutdown_hours > 0
    /\ now - environments[e].last_activity > environments[e].auto_shutdown_hours

C33_CreateIsPerEnvironment ==
    [][\A rq \in EmuRequests, n \in ResourceNames :
          LET e == SubdomainEnvironment(rq) IN
          /\ CreateTable(rq, n)
             => \E t \in dynamodb_tables' :
                   t.environment_id = e /\ t.table_name = n
          /\ CreateQueue(rq, n)
             => \E q \in sqs_queues' :
                   q.environment_id = e /\ q.queue_name = n
          /\ (CreateFunction(rq, n)
              /\ ~\E f \in lambda_functions :
                    f.environment_id = e /\ f.function_name = n)
             => \E f \in lambda_functions' :
                   f.environment_id = e /\ f.function_name = n]_vars

\* the requests check_and_increment admitted for a session
AdmittedRuns(session) == { x \in executions : x.session_id = session }

\* C34: the executions admitted for a session never exceed its limit, and a
\* request that finds the count at the limit is rejected and leaves the
\* count as it is.
C34_LimitHolds ==
    /\ \A session \in Sessions :
          Cardinality(AdmittedRuns(session)) <= RUNS_ANONYMOUS
    /\ \A w \in Workers :
          sandbox[w].pc = "rejected" => sandbox[w].count >= RUNS_ANONYMOUS

\* the sum of the costs of the closed usage periods of an environment
RECURSIVE ClosedCost(_, _)
ClosedCost(e, n) ==
    IF n = 0 THEN 0
    ELSE ClosedCost(e, n - 1)
         + (IF /\ usage_logs[n].environment_id = e
               /\ usage_logs[n].period_end # Null
            THEN usage_logs[n].cost ELSE 0)

\* C35: once the stop, destroy and sweep steps on an environment are over,
\* its total_cost is the sum of the costs of its closed usage periods, and
\* the cost of a closed period does not change.
C35_TotalCostIsSumOfPeriods ==
    /\ (\A p \in Procs : req[p].pc = "idle")
       => \A e \in Envs :
             environments[e].exists
             => environments[e].total_cost = ClosedCost(e, Len(usage_logs))

\* the deliveries that returned a message
Deliveries == { d \in sqs_delivered : d.message # NoMessage }

C37_CountersMatch ==
    \A q \in sqs_queues :
       /\ q.approximate_number_of_messages
             = Len(redis_lists[<<q.environment_id, q.queue_name>>])
       /\ q.approximate_number_of_messages_not_visible
             = Cardinality({ d \in Deliveries :
                                /\ d.environment_id = q.environment_id
                                /\ d.queue_name = q.queue_name
                                /\ ~d.deleted /\ ~d.elapsed })
       /\ q.approximate_number_of_messages >= 0
       /\ q.approximate_number_of_messages_not_visible >= 0

\* C38: a DeleteVpc request removes the row of the VPC only when the delete
\* of the backing network succeeded; when the adapter reports a failure
\* the row stays.
C38_RecordRemovedOnlyIfNetworkDeleted ==
    [][\A v \in mock_vpcs :
          (v \notin mock_vpcs' /\ last_delete_vcn' # last_delete_vcn)
          => /\ last_delete_vcn'.result
             /\ ~(VcnExists(v.oci_vcn_id))']_vars

\* the request a client sends to the subdomain of environment e
HostRequest(e) ==
    [host |-> generate_environment_id(e) \o PlatformHost, header |-> <<>>]

\* C39: for every running environment the request whose Host is the id of
\* the environment followed by the platform host resolves to that
\* environment in the VPC adapter and in the DynamoDB, SQS and Lambda
\* adapters, and a request whose host names no existing environment (and
\* that carries no environment header) resolves to none.
C39_HostResolves ==
    /\ \A e \in Envs :
          (environments[e].exists /\ environments[e].status = RUNNING)
          => /\ get_environment_from_request(HostRequest(e)) = e
             /\ SubdomainEnvironment(HostRequest(e)) = e
    /\ \A rq \in EmuRequests :
          (/\ rq.header = <<>>
           /\ ~\E e \in Envs : /\ environments[e].exists
                               /\ FirstLabel(rq.host) = generate_environment_id(e))
          => /\ get_environment_from_request(rq) = NoEnv
             /\ SubdomainEnvironment(rq) = NoEnv

\* the smallest multiple of 100 that is not below d
RoundUpTo100(d) == IF d % 100 = 0 THEN d ELSE ((d \div 100) + 1) * 100

\* C40: the billed duration recorded for a successful invocation is its
\* duration rounded up to a multiple of 100 ms; a duration that is a
\* multiple of 100 is billed unchanged.
C40_BilledDurationRoundsUp ==
    \A i \in lambda_invocations :
       i.status_code = 200
       => i.billed_duration_ms = RoundUpTo100(i.duration_ms)

====
